---- MODULE Spec2Model ----
(***************************************************************************)
(* The raster annotation engine of notebooks-gd: the drawing cell          *)
(* (DrawingCell.tsx), the mini drawing cell (MiniDrawing in                *)
(* MiniNotebook) and the PDF annotation overlay (PDFCell).                 *)
(*                                                                         *)
(* A canvas is modelled by the colours it shows at a window of sample      *)
(* points (Pixels); coordinates are canvas pixels, colours are the CSS     *)
(* strings the code uses, "transparent" is a cleared pixel.  Pressures     *)
(* are hundredths (50 is 0.5); stroke widths are carried in eighths of a   *)
(* px so that brushSize * (0.5 + pressure) stays an integer.               *)
(***************************************************************************)
EXTENDS Integers, Sequences, FiniteSets, TLC

VARIABLES
    surface,            \* which component this instance is: "drawing", "mini", "pdf"
    isDrawing,          \* useState isDrawing
    isEditing,          \* useState isEditing (isEditingDrawing in PDFCell)
    tool,               \* useState tool
    color,              \* useState color
    brushSize,          \* useState brushSize
    fillShape,          \* useState fillShape
    background,         \* useState background (customPageBackground in PDFCell)
    isDarkMode,         \* useState isDarkMode
    lastPoint,          \* lastPoint.current
    shapeStartPoint,    \* shapeStartPoint.current
    canvas,             \* main (ink) canvas pixels: canvasRef / drawingCanvasRef
    bgCanvas,           \* background canvas pixels: bgCanvasRef / pdfCanvasRef
    previewCanvas,      \* preview canvas pixels: previewCanvasRef
    historyRef,         \* historyRef.current: sequence of ImageData
    historyIndexRef,    \* historyIndexRef.current (0-based, -1 when empty)
    dataUrl,            \* cell.dataUrl as the parent holds it
    imgLoads,           \* Image objects whose onload has not fired yet
    inserts,            \* images of handleInsertImage whose onload has not fired yet
    pages,              \* cell.pages of the PDF cell
    currentPageIndex,   \* useState currentPageIndex
    pdfDoc,             \* useState pdfDoc: has the document loaded
    requests,           \* renderPage() calls suspended at an await
    renderTaskRef,      \* renderTaskRef.current: the id of a render task, 0 for null
    canvasSize,         \* width and height (attributes) of the cell's canvases
    drawingCtx,         \* globalCompositeOperation and globalAlpha of the ink canvas's 2D context
    store,              \* useProjects: the ProjectStore (projects, notebooks, activeNotebookId)
    errors,             \* number of console.error reports of the render effect
    nReq,               \* number of render requests issued so far
    nOps,               \* observer: commands issued while idle
    nSwitch,            \* observer: commands issued while a gesture was active
    track               \* observer: the gesture/undo/redo scenario in progress

(***************************************************************************)
(* Sample window and colours                                               *)
(***************************************************************************)
Coords == {10, 20, 30}
Pixels == Coords \X Coords

Transparent == "transparent"

BackgroundTypes == {"blank", "grid", "lines", "dots"}
ShapeTools == {"line", "rect", "circle", "arrow"}
DrawingTools == {"pen", "eraser", "line", "rect", "circle", "arrow"}
PdfTools == {"pen", "eraser", "highlighter"}

Blank == [p \in Pixels |-> Transparent]

NullPoint == [x |-> -1, y |-> -1, pressure |-> 0]

\* The drawing state of a fresh 2D context (also after the canvas is resized):
\* normal compositing, full opacity (globalAlpha in hundredths).
DefaultCtx == [globalCompositeOperation |-> "source-over", globalAlpha |-> 100]
MiniNullPoint == [x |-> -1, y |-> -1]

Min(a, b) == IF a < b THEN a ELSE b
Max(a, b) == IF a > b THEN a ELSE b
Abs(a) == IF a < 0 THEN -a ELSE a

(***************************************************************************)
(* Canvas 2D primitives, restricted to the sample window                   *)
(***************************************************************************)

\* Integer square root (Math.sqrt rounded down), for lengths in tenths of a px.
ISqrt(n) == CHOOSE r \in 0..400 : r * r <= n /\ (r + 1) * (r + 1) > n

\* Is the point (qx, qy) within half the line width of segment a-b (round
\* caps)?  w8 is the line width in eighths of a px: dist <= w/2 iff
\* 256 * dist^2 <= w8^2.
NearSegment(qx, qy, ax, ay, bx, by, w8) ==
    LET dx == bx - ax
        dy == by - ay
        px == qx - ax
        py == qy - ay
        dd == dx * dx + dy * dy
        dot == px * dx + py * dy
        cross == px * dy - py * dx
    IN  IF dd = 0 \/ dot <= 0
        THEN 256 * (px * px + py * py) <= w8 * w8
        ELSE IF dot >= dd
        THEN 256 * ((qx - bx) * (qx - bx) + (qy - by) * (qy - by)) <= w8 * w8
        ELSE 256 * cross * cross <= w8 * w8 * dd

\* ctx.moveTo(a); ctx.lineTo(b); ctx.stroke(): the samples the stroke paints.
StrokeSegment(ax, ay, bx, by, w8) ==
    {p \in Pixels : NearSegment(p[1], p[2], ax, ay, bx, by, w8)}

\* ctx.strokeRect(x, y, w, h): the outline of the rectangle, nothing when both
\* w and h are zero; negative w or h give the same outline.
StrokeRect(x, y, w, h, w8) ==
    IF w = 0 /\ h = 0 THEN {}
    ELSE StrokeSegment(x, y, x + w, y, w8) \cup StrokeSegment(x + w, y, x + w, y + h, w8)
         \cup StrokeSegment(x + w, y + h, x, y + h, w8) \cup StrokeSegment(x, y + h, x, y, w8)

\* ctx.fillRect(x, y, w, h): nothing when w or h is zero.
FillRect(x, y, w, h) ==
    IF w = 0 \/ h = 0 THEN {}
    ELSE {p \in Pixels : /\ Min(x, x + w) <= p[1] /\ p[1] <= Max(x, x + w)
                         /\ Min(y, y + h) <= p[2] /\ p[2] <= Max(y, y + h)}

\* The ellipse path of ctx.ellipse(cx, cy, rx, ry, 0, 0, 2*PI), in doubled
\* coordinates so that the centre start + (end - start) / 2 stays an integer:
\* c2 = 2*centre, d = 2*radius.
InEllipse2(p, c2x, c2y, dX, dY) ==
    LET X == 2 * p[1] - c2x
        Y == 2 * p[2] - c2y
    IN  X * X * dY * dY + Y * Y * dX * dX <= dX * dX * dY * dY

\* ctx.fill() of the ellipse path: its interior (empty when a radius is zero).
FillEllipse(c2x, c2y, dX, dY) ==
    IF dX = 0 \/ dY = 0 THEN {}
    ELSE {p \in Pixels : InEllipse2(p, c2x, c2y, dX, dY)}

\* ctx.stroke() of the ellipse path with line width w px: the band between the
\* ellipse shrunk and grown by w/2.
StrokeEllipse(c2x, c2y, dX, dY, w) ==
    {p \in Pixels :
        /\ InEllipse2(p, c2x, c2y, dX + w, dY + w)
        /\ \/ dX - w <= 0
           \/ dY - w <= 0
           \/ ~InEllipse2(p, c2x, c2y, dX - w, dY - w)
           \/ LET X == 2 * p[1] - c2x
                  Y == 2 * p[2] - c2y
              IN  X * X * (dY - w) * (dY - w) + Y * Y * (dX - w) * (dX - w)
                      = (dX - w) * (dX - w) * (dY - w) * (dY - w)}

\* One barb of an arrowhead: the stroke from the tip e to
\* e - headLength * (cos(angle + s*PI/6), sin(angle + s*PI/6)), where angle =
\* atan2(dy, dx) and s is +1 or -1.  cos(PI/6) = 0.866, sin(PI/6) = 0.5; the
\* shaft length is taken in tenths of a px.
StrokeBarb(ex, ey, dx, dy, s, headLength, w8) ==
    LET ux == IF dx = 0 /\ dy = 0 THEN 1 ELSE dx
        uy == IF dx = 0 /\ dy = 0 THEN 0 ELSE dy
        L10 == ISqrt(100 * (ux * ux + uy * uy))
        \* (cos, sin)(angle + s*30deg) * 1000 * L
        Vx == 866 * ux - s * 500 * uy
        Vy == 866 * uy + s * 500 * ux
        \* barb end in tenths of a px
        b10x == 10 * ex - ((headLength * Vx) \div (10 * L10))
        b10y == 10 * ey - ((headLength * Vy) \div (10 * L10))
    IN  {p \in Pixels :
            LET qx == p[1] - ex
                qy == p[2] - ey
                dot == -(qx * Vx + qy * Vy)
                cross == qx * Vy - qy * Vx
            IN  IF dot <= 0
                THEN 256 * (qx * qx + qy * qy) <= w8 * w8
                ELSE IF dot >= headLength * 100 * L10
                THEN 256 * ((10 * p[1] - b10x) * (10 * p[1] - b10x)
                            + (10 * p[2] - b10y) * (10 * p[2] - b10y)) <= 100 * w8 * w8
                ELSE 4 * Abs(cross) <= 25 * w8 * L10}

\* source-over painting of an opaque colour on a set of pixels.
Paint(cv, region, c) == [p \in Pixels |-> IF p \in region THEN c ELSE cv[p]]

\* ctx.clearRect(0, 0, width, height)
ClearRect(cv) == Blank

\* ctx.drawImage(img, 0, 0): source-over, transparent source pixels keep the
\* destination.
DrawImage(cv, img) == [p \in Pixels |-> IF img[p] = Transparent THEN cv[p] ELSE img[p]]

\* canvas.toDataURL('image/png') and its decoding by new Image(): the payload
\* carries the pixels of the canvas at the time of the call.
ToDataURL(cv) == [mime |-> "image/png", pixels |-> cv]
NoDataUrl == [mime |-> "", pixels |-> Blank]
vars == <<surface, isDrawing, isEditing, tool, color, brushSize, fillShape, background,
          isDarkMode, lastPoint, shapeStartPoint, canvas, bgCanvas, previewCanvas,
          historyRef, historyIndexRef, dataUrl, imgLoads, inserts, pages, currentPageIndex,
          pdfDoc, requests, renderTaskRef, canvasSize, drawingCtx, store, errors, nReq,
          nOps, nSwitch, track>>

toolVars == <<tool, color, brushSize, fillShape>>
themeVars == <<background, isDarkMode>>
gestureVars == <<isDrawing, lastPoint, shapeStartPoint>>
historyVars == <<historyRef, historyIndexRef>>
cellVars == <<dataUrl, imgLoads, inserts>>
budgetVars == <<nOps, nSwitch>>
pdfVars == <<pages, currentPageIndex, pdfDoc, requests, renderTaskRef, canvasSize,
             errors, nReq>>

(***************************************************************************)
(* Bounds of the model                                                     *)
(***************************************************************************)
\* How many commands (gestures, clears, saves, page switches) a behaviour
\* issues while no gesture is active.
MaxOps == 1

\* How many commands and setting changes (tool, fill, edit mode, clear, save,
\* page switch) a behaviour issues while a gesture is active.
MaxSwitches == 1

\* The pointer events a behaviour draws from: client position and pressure
\* (0 is a device that reports none).
PointerEvents ==
    { [clientX |-> 5,  clientY |-> 5,  pressure |-> 0],
      [clientX |-> 15, clientY |-> 15, pressure |-> 100] }

\* A command (clear, save, page switch) uses the budget of the phase it is
\* issued in.
SpendCommand ==
    /\ IF isDrawing THEN nSwitch < MaxSwitches ELSE nOps < MaxOps
    /\ nOps' = IF isDrawing THEN nOps ELSE nOps + 1
    /\ nSwitch' = IF isDrawing THEN nSwitch + 1 ELSE nSwitch
    /\ UNCHANGED <<drawingCtx, store>>

\* A setting change (tool, fill, edit mode) is free while idle, as long as a
\* command can still follow it, and uses the switch budget while a gesture is
\* active.
SpendSetting ==
    /\ IF isDrawing THEN nSwitch < MaxSwitches ELSE nOps < MaxOps
    /\ nSwitch' = IF isDrawing THEN nSwitch + 1 ELSE nSwitch
    /\ UNCHANGED nOps
    /\ UNCHANGED <<drawingCtx, store>>

\* A pointer-down that starts a gesture uses the command budget.
SpendGesture ==
    /\ isDrawing \/ nOps < MaxOps
    /\ nOps' = IF isDrawing THEN nOps ELSE nOps + 1
    /\ UNCHANGED nSwitch
    /\ UNCHANGED <<drawingCtx, store>>

(***************************************************************************)
(* DrawingCell (src/components/DrawingCell.tsx)                            *)
(***************************************************************************)
DEFAULT_CANVAS_WIDTH == 800
DEFAULT_CANVAS_HEIGHT == 400
gridSize == 20
MaxHistory == 50

\* canvas.getBoundingClientRect() of the drawing cell's canvas as displayed:
\* half its pixel size.
boundingClientRect == [left |-> 0, top |-> 0, width |-> 400, height |-> 200]

\* A ruling of the background pattern passes through coordinate v.
OnRuling(v, limit) == v >= gridSize /\ v < limit /\ v % gridSize = 0

\* The rulings and dots of a background pattern.
OnPattern(p, width, height, bgType) ==
    CASE bgType = "grid" -> OnRuling(p[1], width) \/ OnRuling(p[2], height)
      [] bgType = "lines" -> OnRuling(p[2], height)
      [] bgType = "dots" -> OnRuling(p[1], width) /\ OnRuling(p[2], height)
      [] OTHER -> FALSE

\* drawBackground without its fillRect: the pattern alone, over what the
\* canvas holds.
drawBackgroundOn_NoFill(cv, width, height, bgType, dark) ==
    LET grid == IF dark THEN "#374151" ELSE "#e5e7eb"
    IN  [p \in Pixels |->
            IF p[1] >= width \/ p[2] >= height THEN cv[p]
            ELSE IF OnPattern(p, width, height, bgType) THEN grid ELSE cv[p]]

\* drawBackground(ctx, width, height, bgType, dark) on a canvas holding cv:
\* fillRect of the whole area with the plain colour, then the pattern.
drawBackgroundOn(cv, width, height, bgType, dark) ==
    LET bg   == IF dark THEN "#1f2937" ELSE "#ffffff"
        grid == IF dark THEN "#374151" ELSE "#e5e7eb"
    IN  [p \in Pixels |->
            IF p[1] >= width \/ p[2] >= height THEN cv[p]
            ELSE IF OnPattern(p, width, height, bgType) THEN grid ELSE bg]

\* drawBackground on a canvas that holds nothing yet.
drawBackground(width, height, bgType, dark) ==
    drawBackgroundOn(Blank, width, height, bgType, dark)

saveToHistory_NoCap(history, index, imageData) ==
    LET pushed == Append(SubSeq(history, 1, index + 1), imageData)
    IN  [history |-> pushed, index |-> Len(pushed) - 1]

saveToHistory_NoTruncate(history, index, imageData) ==
    LET pushed == Append(history, imageData)
    IN  IF Len(pushed) > MaxHistory
        THEN [history |-> Tail(pushed), index |-> Len(pushed) - 2]
        ELSE [history |-> pushed, index |-> Len(pushed) - 1]

\* The history after saveToHistory() has pushed imageData.
saveToHistory(history, index, imageData) ==
    LET pushed == Append(SubSeq(history, 1, index + 1), imageData)
    IN  IF Len(pushed) > MaxHistory
        THEN [history |-> Tail(pushed), index |-> Len(pushed) - 2]
        ELSE [history |-> pushed, index |-> Len(pushed) - 1]

getCanvasPoint(e) ==
    LET scaleX == DEFAULT_CANVAS_WIDTH \div boundingClientRect.width
        scaleY == DEFAULT_CANVAS_HEIGHT \div boundingClientRect.height
    IN  [x |-> (e.clientX - boundingClientRect.left) * scaleX,
         y |-> (e.clientY - boundingClientRect.top) * scaleY,
         pressure |-> IF e.pressure = 0 THEN 50 ELSE e.pressure]

\* drawLine's size with the eraser as wide as the brush.
lineSize_ThinEraser(t, size, from, to) ==
    IF t = "eraser" THEN 8 * size
    ELSE (size * (100 + from.pressure + to.pressure)) \div 25

\* ctx.lineWidth of a freehand segment, in eighths of a px.
lineSize(t, size, from, to) ==
    IF t = "eraser" THEN 8 * (size * 8)
    ELSE (size * (100 + from.pressure + to.pressure)) \div 25

drawLine(cv, from, to, t, size, c, dark) ==
    LET eraserColor == IF dark THEN "#1f2937" ELSE "#ffffff"
    IN  Paint(cv, StrokeSegment(from.x, from.y, to.x, to.y, lineSize(t, size, from, to)),
              IF t = "eraser" THEN eraserColor ELSE c)

isShapeTool(t) == t \in {"line", "rect", "circle", "arrow"}

\* drawShape taking the rect and the ellipse to extend right and down from
\* the start point.
shapeRegion_FromStart(start, end, shapeType, size, fill, preview, headLength) ==
    LET w == Abs(end.x - start.x)
        h == Abs(end.y - start.y)
    IN  CASE shapeType = "line" ->
                StrokeSegment(start.x, start.y, end.x, end.y, 8 * size)
          [] shapeType = "arrow" ->
                StrokeSegment(start.x, start.y, end.x, end.y, 8 * size)
                \cup StrokeBarb(end.x, end.y, end.x - start.x, end.y - start.y, -1,
                                headLength, 8 * size)
                \cup StrokeBarb(end.x, end.y, end.x - start.x, end.y - start.y, 1,
                                headLength, 8 * size)
          [] shapeType = "rect" ->
                (IF fill /\ ~preview THEN FillRect(start.x, start.y, w, h) ELSE {})
                \cup StrokeRect(start.x, start.y, w, h, 8 * size)
          [] shapeType = "circle" ->
                (IF fill /\ ~preview
                 THEN FillEllipse(2 * start.x + w, 2 * start.y + h, w, h) ELSE {})
                \cup StrokeEllipse(2 * start.x + w, 2 * start.y + h, w, h, size)
          [] OTHER -> {}

\* drawShape filling the preview pass as well.
shapeRegion_PreviewFills(start, end, shapeType, size, fill, preview, headLength) ==
    CASE shapeType = "line" ->
            StrokeSegment(start.x, start.y, end.x, end.y, 8 * size)
      [] shapeType = "arrow" ->
            StrokeSegment(start.x, start.y, end.x, end.y, 8 * size)
            \cup StrokeBarb(end.x, end.y, end.x - start.x, end.y - start.y, -1, headLength, 8 * size)
            \cup StrokeBarb(end.x, end.y, end.x - start.x, end.y - start.y, 1, headLength, 8 * size)
      [] shapeType = "rect" ->
            (IF fill
             THEN FillRect(start.x, start.y, end.x - start.x, end.y - start.y) ELSE {})
            \cup StrokeRect(start.x, start.y, end.x - start.x, end.y - start.y, 8 * size)
      [] shapeType = "circle" ->
            (IF fill
             THEN FillEllipse(start.x + end.x, start.y + end.y,
                              Abs(end.x - start.x), Abs(end.y - start.y)) ELSE {})
            \cup StrokeEllipse(start.x + end.x, start.y + end.y,
                               Abs(end.x - start.x), Abs(end.y - start.y), size)
      [] OTHER -> {}

\* The samples drawShape paints (stroke and, when filled, fill share a colour).
shapeRegion(start, end, shapeType, size, fill, preview, headLength) ==
    CASE shapeType = "line" ->
            StrokeSegment(start.x, start.y, end.x, end.y, 8 * size)
      [] shapeType = "arrow" ->
            StrokeSegment(start.x, start.y, end.x, end.y, 8 * size)
            \cup StrokeBarb(end.x, end.y, end.x - start.x, end.y - start.y, -1, headLength, 8 * size)
            \cup StrokeBarb(end.x, end.y, end.x - start.x, end.y - start.y, 1, headLength, 8 * size)
      [] shapeType = "rect" ->
            (IF fill /\ ~preview
             THEN FillRect(start.x, start.y, end.x - start.x, end.y - start.y) ELSE {})
            \cup StrokeRect(start.x, start.y, end.x - start.x, end.y - start.y, 8 * size)
      [] shapeType = "circle" ->
            (IF fill /\ ~preview
             THEN FillEllipse(start.x + end.x, start.y + end.y,
                              Abs(end.x - start.x), Abs(end.y - start.y)) ELSE {})
            \cup StrokeEllipse(start.x + end.x, start.y + end.y,
                               Abs(end.x - start.x), Abs(end.y - start.y), size)
      [] OTHER -> {}

drawShape(cv, start, end, shapeType, preview, size, c, fill) ==
    Paint(cv, shapeRegion(start, end, shapeType, size, fill, preview, Max(10, size * 4)), c)

clearPreviewCanvas == Blank

\* The observer of gesture/undo/redo scenarios: since the surface finished
\* initializing, n gestures were completed (ink0 before them, inkN after
\* them), then k undos, then k redos, and nothing else happened.
NoTrack == [phase |-> "none", n |-> 0, k |-> 0, ink0 |-> Blank, inkN |-> Blank]
TrackStart(cv) == [phase |-> "gestures", n |-> 0, k |-> 0, ink0 |-> cv, inkN |-> cv]
TrackDown == IF track.phase = "gestures" THEN track ELSE NoTrack
TrackGesture(cv) ==
    IF track.phase = "gestures" THEN [track EXCEPT !.n = @ + 1, !.inkN = cv] ELSE NoTrack
\* undo() at cursor 0 and redo() at the last entry are recorded as such.
TrackUndo ==
    CASE isDrawing -> NoTrack
      [] historyIndexRef = 0 -> [NoTrack EXCEPT !.phase = "undo at 0"]
      [] track.phase = "gestures" /\ track.n >= 1 -> [track EXCEPT !.phase = "undos", !.k = 1]
      [] track.phase = "undos" /\ track.k < track.n -> [track EXCEPT !.k = @ + 1]
      [] OTHER -> NoTrack
TrackRedo ==
    CASE isDrawing -> NoTrack
      [] historyRef # <<>> /\ historyIndexRef = Len(historyRef) - 1 ->
            [NoTrack EXCEPT !.phase = "redo at tail"]
      [] track.phase = "undos" /\ track.k = track.n -> [track EXCEPT !.phase = "redos", !.k = 1]
      [] track.phase = "redos" /\ track.k < track.n -> [track EXCEPT !.k = @ + 1]
      [] OTHER -> NoTrack

\* The initialize-canvas effect, run with the values of its dependencies
\* after the render that changed one of them.
initializeCanvas(url, bgType, dark) ==
    /\ bgCanvas' = drawBackgroundOn(bgCanvas, DEFAULT_CANVAS_WIDTH, DEFAULT_CANVAS_HEIGHT,
                                    bgType, dark)
    /\ IF url.mime # ""
       THEN /\ imgLoads' = Append(imgLoads, url)
            /\ UNCHANGED <<canvas, historyVars>>
       ELSE LET drawn == drawBackgroundOn(canvas, DEFAULT_CANVAS_WIDTH,
                                         DEFAULT_CANVAS_HEIGHT, bgType, dark)
                h == saveToHistory(historyRef, historyIndexRef, drawn)
            IN  /\ canvas' = drawn
                /\ historyRef' = h.history
                /\ historyIndexRef' = h.index
                /\ UNCHANGED imgLoads
    /\ UNCHANGED <<drawingCtx, store>>

\* The i-th pending image fails to decode: the Image fires its error event,
\* for which the effect registered no handler.
imgOnerror(i) ==
    /\ surface = "drawing"
    /\ i \in 1..Len(imgLoads)
    /\ imgLoads' = SubSeq(imgLoads, 1, i - 1) \o SubSeq(imgLoads, i + 1, Len(imgLoads))
    /\ track' = NoTrack
    /\ UNCHANGED <<surface, isEditing, toolVars, themeVars, gestureVars, canvas, bgCanvas,
                   previewCanvas, historyVars, dataUrl, pdfVars, budgetVars>>
    /\ UNCHANGED inserts
    /\ UNCHANGED <<drawingCtx, store>>

imgOnload_SeedsBlank(i) ==
    /\ surface = "drawing"
    /\ i \in 1..Len(imgLoads)
    /\ LET img == imgLoads[i].pixels
           drawn == DrawImage(canvas, img)
           h0 == saveToHistory(historyRef, historyIndexRef,
                               drawBackground(DEFAULT_CANVAS_WIDTH, DEFAULT_CANVAS_HEIGHT,
                                              background, isDarkMode))
           h == saveToHistory(h0.history, h0.index, drawn)
       IN  /\ canvas' = drawn
           /\ historyRef' = h.history
           /\ historyIndexRef' = h.index
           /\ track' = IF historyRef = <<>> /\ ~isDrawing /\ Len(imgLoads) = 1
                       THEN TrackStart(drawn) ELSE NoTrack
    /\ imgLoads' = SubSeq(imgLoads, 1, i - 1) \o SubSeq(imgLoads, i + 1, Len(imgLoads))
    /\ UNCHANGED <<surface, isEditing, toolVars, themeVars, gestureVars, bgCanvas,
                   previewCanvas, dataUrl, pdfVars, budgetVars>>
    /\ UNCHANGED inserts
    /\ UNCHANGED <<drawingCtx, store>>

\* img.onload of the initialize-canvas effect, for the i-th pending image.
imgOnload(i) ==
    /\ surface = "drawing"
    /\ i \in 1..Len(imgLoads)
    /\ LET img == imgLoads[i].pixels
           drawn == DrawImage(canvas, img)
           h == saveToHistory(historyRef, historyIndexRef, drawn)
       IN  /\ canvas' = drawn
           /\ historyRef' = h.history
           /\ historyIndexRef' = h.index
           /\ track' = IF historyRef = <<>> /\ ~isDrawing /\ Len(imgLoads) = 1
                       THEN TrackStart(drawn) ELSE NoTrack
    /\ imgLoads' = SubSeq(imgLoads, 1, i - 1) \o SubSeq(imgLoads, i + 1, Len(imgLoads))
    /\ UNCHANGED <<surface, isEditing, toolVars, themeVars, gestureVars, bgCanvas,
                   previewCanvas, dataUrl, pdfVars, budgetVars>>
    /\ UNCHANGED inserts
    /\ UNCHANGED <<drawingCtx, store>>

undo_NoRestore ==
    /\ surface = "drawing"
    /\ isEditing
    /\ IF historyIndexRef > 0
       THEN /\ historyIndexRef' = historyIndexRef - 1
            /\ UNCHANGED canvas
       ELSE UNCHANGED <<historyIndexRef, canvas>>
    /\ track' = TrackUndo
    /\ UNCHANGED <<surface, isEditing, toolVars, themeVars, gestureVars, bgCanvas,
                   previewCanvas, historyRef, cellVars, pdfVars, budgetVars>>
    /\ UNCHANGED <<drawingCtx, store>>

undo ==
    /\ surface = "drawing"
    /\ isEditing
    /\ IF historyIndexRef > 0
       THEN /\ historyIndexRef' = historyIndexRef - 1
            /\ canvas' = historyRef[historyIndexRef' + 1]
       ELSE UNCHANGED <<historyIndexRef, canvas>>
    /\ track' = TrackUndo
    /\ UNCHANGED <<surface, isEditing, toolVars, themeVars, gestureVars, bgCanvas,
                   previewCanvas, historyRef, cellVars, pdfVars, budgetVars>>
    /\ UNCHANGED <<drawingCtx, store>>

redo_PastTail ==
    /\ surface = "drawing"
    /\ isEditing
    /\ IF historyIndexRef <= Len(historyRef) - 1
       THEN /\ historyIndexRef' = historyIndexRef + 1
            /\ canvas' = IF historyIndexRef' < Len(historyRef)
                          THEN historyRef[historyIndexRef' + 1] ELSE canvas
       ELSE UNCHANGED <<historyIndexRef, canvas>>
    /\ track' = TrackRedo
    /\ UNCHANGED <<surface, isEditing, toolVars, themeVars, gestureVars, bgCanvas,
                   previewCanvas, historyRef, cellVars, pdfVars, budgetVars>>
    /\ UNCHANGED <<drawingCtx, store>>

redo ==
    /\ surface = "drawing"
    /\ isEditing
    /\ IF historyIndexRef < Len(historyRef) - 1
       THEN /\ historyIndexRef' = historyIndexRef + 1
            /\ canvas' = historyRef[historyIndexRef' + 1]
       ELSE UNCHANGED <<historyIndexRef, canvas>>
    /\ track' = TrackRedo
    /\ UNCHANGED <<surface, isEditing, toolVars, themeVars, gestureVars, bgCanvas,
                   previewCanvas, historyRef, cellVars, pdfVars, budgetVars>>
    /\ UNCHANGED <<drawingCtx, store>>

handlePointerDown(e) ==
    /\ surface = "drawing"
    /\ IF ~isEditing
       THEN UNCHANGED vars
       ELSE LET point == getCanvasPoint(e)
            IN  /\ SpendGesture
                /\ isDrawing' = TRUE
                /\ lastPoint' = point
                /\ shapeStartPoint' = IF isShapeTool(tool) THEN point ELSE shapeStartPoint
                /\ track' = TrackDown
                /\ UNCHANGED <<surface, isEditing, toolVars, themeVars, canvas, bgCanvas,
                               previewCanvas, historyVars, cellVars, pdfVars>>
    /\ UNCHANGED <<drawingCtx, store>>

handlePointerMove_OnInk(e) ==
    /\ surface = "drawing"
    /\ IF ~isDrawing \/ ~isEditing \/ shapeStartPoint = NullPoint \/ ~isShapeTool(tool)
       THEN UNCHANGED vars
       ELSE /\ canvas' = drawShape(canvas, shapeStartPoint, getCanvasPoint(e), tool, TRUE,
                                   brushSize, color, fillShape)
            /\ UNCHANGED <<surface, isDrawing, isEditing, toolVars, themeVars,
                           lastPoint, shapeStartPoint, previewCanvas, bgCanvas,
                           historyVars, cellVars, pdfVars, budgetVars, track>>
    /\ UNCHANGED <<drawingCtx, store>>

handlePointerMove(e) ==
    /\ surface = "drawing"
    /\ IF ~isDrawing \/ ~isEditing
       THEN UNCHANGED vars
       ELSE LET currentPoint == getCanvasPoint(e)
            IN  IF isShapeTool(tool)
                THEN IF shapeStartPoint = NullPoint
                     THEN UNCHANGED vars
                     ELSE /\ previewCanvas' = drawShape(clearPreviewCanvas, shapeStartPoint,
                                                        currentPoint, tool, TRUE,
                                                        brushSize, color, fillShape)
                          /\ UNCHANGED <<surface, isDrawing, isEditing, toolVars, themeVars,
                                         lastPoint, shapeStartPoint, canvas, bgCanvas,
                                         historyVars, cellVars, pdfVars, budgetVars, track>>
                ELSE IF lastPoint = NullPoint
                     THEN UNCHANGED vars
                     ELSE /\ canvas' = drawLine(canvas, lastPoint, currentPoint, tool,
                                                brushSize, color, isDarkMode)
                          /\ lastPoint' = currentPoint
                          /\ UNCHANGED <<surface, isDrawing, isEditing, toolVars, themeVars,
                                         shapeStartPoint, bgCanvas, previewCanvas,
                                         historyVars, cellVars, pdfVars, budgetVars, track>>
    /\ UNCHANGED <<drawingCtx, store>>

\* handlePointerUp without its isDrawing test.
handlePointerUp_Unguarded(e) ==
    /\ surface = "drawing"
    /\ LET shape == isShapeTool(tool) /\ shapeStartPoint # NullPoint
           drawn == IF shape
                    THEN drawShape(canvas, shapeStartPoint, getCanvasPoint(e), tool,
                                   FALSE, brushSize, color, fillShape)
                    ELSE canvas
           h == saveToHistory(historyRef, historyIndexRef, drawn)
       IN  /\ canvas' = drawn
           /\ previewCanvas' = IF shape THEN clearPreviewCanvas ELSE previewCanvas
           /\ shapeStartPoint' = IF shape THEN NullPoint ELSE shapeStartPoint
           /\ isDrawing' = FALSE
           /\ lastPoint' = NullPoint
           /\ historyRef' = h.history
           /\ historyIndexRef' = h.index
           /\ track' = IF isEditing THEN TrackGesture(drawn) ELSE NoTrack
           /\ UNCHANGED <<surface, isEditing, toolVars, themeVars, bgCanvas,
                          cellVars, pdfVars, budgetVars>>
    /\ UNCHANGED <<drawingCtx, store>>

handlePointerUp(e) ==
    /\ surface = "drawing"
    /\ IF ~isDrawing
       THEN UNCHANGED vars
       ELSE LET shape == isShapeTool(tool) /\ shapeStartPoint # NullPoint
                drawn == IF shape
                         THEN drawShape(canvas, shapeStartPoint, getCanvasPoint(e), tool,
                                        FALSE, brushSize, color, fillShape)
                         ELSE canvas
                h == saveToHistory(historyRef, historyIndexRef, drawn)
            IN  /\ canvas' = drawn
                /\ previewCanvas' = IF shape THEN clearPreviewCanvas ELSE previewCanvas
                /\ shapeStartPoint' = IF shape THEN NullPoint ELSE shapeStartPoint
                /\ isDrawing' = FALSE
                /\ lastPoint' = NullPoint
                /\ historyRef' = h.history
                /\ historyIndexRef' = h.index
                /\ track' = IF isEditing THEN TrackGesture(drawn) ELSE NoTrack
                /\ UNCHANGED <<surface, isEditing, toolVars, themeVars, bgCanvas,
                               cellVars, pdfVars, budgetVars>>
    /\ UNCHANGED <<drawingCtx, store>>

\* onPointerUp and onPointerLeave are both bound to handlePointerUp.
onPointerUp(e) == handlePointerUp(e)
onPointerLeave(e) == handlePointerUp(e)

handleSave ==
    /\ surface = "drawing"
    /\ isEditing
    /\ SpendCommand
    /\ dataUrl' = ToDataURL(canvas)
    /\ isEditing' = FALSE
    /\ IF dataUrl' # dataUrl
       THEN initializeCanvas(dataUrl', background, isDarkMode)
       ELSE UNCHANGED <<bgCanvas, canvas, historyVars, imgLoads>>
    /\ track' = NoTrack
    /\ UNCHANGED <<surface, toolVars, themeVars, gestureVars, previewCanvas, pdfVars>>
    /\ UNCHANGED inserts
    /\ UNCHANGED <<drawingCtx, store>>

handleClear ==
    /\ surface = "drawing"
    /\ isEditing
    /\ SpendCommand
    /\ LET drawn == drawBackgroundOn(canvas, DEFAULT_CANVAS_WIDTH, DEFAULT_CANVAS_HEIGHT,
                                     background, isDarkMode)
           h == saveToHistory(historyRef, historyIndexRef, drawn)
       IN  /\ canvas' = drawn
           /\ historyRef' = h.history
           /\ historyIndexRef' = h.index
    /\ track' = NoTrack
    /\ UNCHANGED <<surface, isEditing, toolVars, themeVars, gestureVars, bgCanvas,
                   previewCanvas, cellVars, pdfVars>>
    /\ UNCHANGED <<drawingCtx, store>>

\* The "Editar" button and the canvas onClick (true), the "Cancelar" button
\* (false).
setIsEditing(b) ==
    /\ surface = "drawing"
    /\ isEditing # b
    /\ SpendSetting
    /\ isEditing' = b
    /\ track' = IF isDrawing THEN NoTrack ELSE track
    /\ UNCHANGED <<surface, toolVars, themeVars, gestureVars, canvas, bgCanvas,
                   previewCanvas, historyVars, cellVars, pdfVars>>
    /\ UNCHANGED <<drawingCtx, store>>

setTool(t) ==
    /\ surface = "drawing"
    /\ isEditing
    /\ t \in DrawingTools
    /\ t # tool
    /\ SpendSetting
    /\ tool' = t
    /\ UNCHANGED <<surface, isDrawing, isEditing, color, brushSize, fillShape, themeVars,
                   lastPoint, shapeStartPoint, canvas, bgCanvas, previewCanvas,
                   historyVars, cellVars, pdfVars, track>>
    /\ UNCHANGED <<drawingCtx, store>>

\* The fill toggle is rendered only while a shape tool is selected.
setFillShape ==
    /\ surface = "drawing"
    /\ isEditing
    /\ isShapeTool(tool)
    /\ SpendSetting
    /\ fillShape' = ~fillShape
    /\ UNCHANGED <<surface, isDrawing, isEditing, tool, color, brushSize, themeVars,
                   lastPoint, shapeStartPoint, canvas, bgCanvas, previewCanvas,
                   historyVars, cellVars, pdfVars, track>>
    /\ UNCHANGED <<drawingCtx, store>>

\* The set-default-color effect.
defaultColor(c, dark) ==
    IF dark /\ c = "#000000" THEN "#ffffff"
    ELSE IF ~dark /\ c = "#ffffff" THEN "#000000"
    ELSE c

setBackground(b) ==
    /\ surface = "drawing"
    /\ isEditing
    /\ SpendCommand
    /\ b \in BackgroundTypes
    /\ b # background
    /\ background' = b
    /\ initializeCanvas(dataUrl, b, isDarkMode)
    /\ track' = NoTrack
    /\ UNCHANGED <<surface, isDrawing, isEditing, toolVars, isDarkMode, lastPoint,
                   shapeStartPoint, previewCanvas, dataUrl, pdfVars>>
    /\ UNCHANGED inserts
    /\ UNCHANGED <<drawingCtx, store>>

\* checkDarkMode, called by the MutationObserver when the document's class
\* changes: dark is whether the document now has the class 'dark'.
checkDarkMode(dark) ==
    /\ surface = "drawing"
    /\ SpendCommand
    /\ dark # isDarkMode
    /\ isDarkMode' = dark
    /\ initializeCanvas(dataUrl, background, dark)
    /\ color' = defaultColor(color, dark)
    /\ track' = NoTrack
    /\ UNCHANGED <<surface, isDrawing, isEditing, tool, brushSize, fillShape, background,
                   lastPoint, shapeStartPoint, previewCanvas, dataUrl, pdfVars>>
    /\ UNCHANGED inserts
    /\ UNCHANGED <<drawingCtx, store>>

\* The "Grosor" range input of the toolbar.
setBrushSize(n) ==
    /\ surface = "drawing"
    /\ isEditing
    /\ n # brushSize
    /\ SpendSetting
    /\ brushSize' = n
    /\ UNCHANGED <<surface, isDrawing, isEditing, tool, color, fillShape, themeVars,
                   lastPoint, shapeStartPoint, canvas, bgCanvas, previewCanvas,
                   historyVars, cellVars, pdfVars, track>>
    /\ UNCHANGED <<drawingCtx, store>>
(***************************************************************************)
(* MiniDrawing (the drawing cell of MiniNotebook)                          *)
(***************************************************************************)
CANVAS_WIDTH == 400
canvasHeight == 150

\* getBoundingClientRect() of the mini canvas as displayed: half its pixel size.
Mini_boundingClientRect ==
    [left |-> 0, top |-> 0, width |-> CANVAS_WIDTH \div 2, height |-> canvasSize.height \div 2]

\* MiniDrawing's drawBackground: the light pattern of the drawing cell.
Mini_drawBackgroundOn(cv, width, height, bgType) ==
    drawBackgroundOn(cv, width, height, bgType, FALSE)
Mini_drawBackground(width, height, bgType) ==
    Mini_drawBackgroundOn(Blank, width, height, bgType)

Mini_getCanvasPoint(e) ==
    [x |-> (e.clientX - Mini_boundingClientRect.left)
              * (CANVAS_WIDTH \div Mini_boundingClientRect.width),
     y |-> (e.clientY - Mini_boundingClientRect.top)
              * (canvasSize.height \div Mini_boundingClientRect.height)]

Mini_drawShape(cv, start, end, shapeType, preview, size, c, fill) ==
    Paint(cv, shapeRegion(start, end, shapeType, size, fill, preview, Max(8, size * 3)), c)

\* ctx.lineWidth of the freehand segment, in eighths of a px.
Mini_lineSize(t, size) == IF t = "eraser" THEN 8 * (size * 8) ELSE 8 * size

\* The freehand segment handlePointerMove strokes.
Mini_drawLine(cv, from, to, t, size, c) ==
    Paint(cv, StrokeSegment(from.x, from.y, to.x, to.y, Mini_lineSize(t, size)),
          IF t = "eraser" THEN "#ffffff" ELSE c)

\* The initialize-canvases effect, run after a render that changed
\* cell.dataUrl, isEditing, canvasHeight or background.  Its onload draws the
\* same pixels however often it runs, so pending loads of one URL are kept once.
Mini_initializeCanvases(url, bgType) ==
    /\ bgCanvas' = Mini_drawBackgroundOn(bgCanvas, CANVAS_WIDTH, canvasSize.height, bgType)
    /\ IF url.mime # ""
       THEN /\ imgLoads' = IF \E i \in 1..Len(imgLoads) : imgLoads[i] = url
                           THEN imgLoads ELSE Append(imgLoads, url)
            /\ UNCHANGED canvas
       ELSE /\ canvas' = Mini_drawBackgroundOn(canvas, CANVAS_WIDTH, canvasSize.height, bgType)
            /\ UNCHANGED imgLoads
    /\ UNCHANGED <<drawingCtx, store>>

Mini_imgOnload(i) ==
    /\ surface = "mini"
    /\ i \in 1..Len(imgLoads)
    /\ canvas' = DrawImage(Mini_drawBackgroundOn(canvas, CANVAS_WIDTH, canvasSize.height,
                                                 background),
                           imgLoads[i].pixels)
    /\ imgLoads' = SubSeq(imgLoads, 1, i - 1) \o SubSeq(imgLoads, i + 1, Len(imgLoads))
    /\ UNCHANGED <<surface, isEditing, toolVars, themeVars, gestureVars, bgCanvas,
                   previewCanvas, historyVars, dataUrl, pdfVars, budgetVars, track>>
    /\ UNCHANGED inserts
    /\ UNCHANGED <<drawingCtx, store>>

Mini_handlePointerDown(e) ==
    /\ surface = "mini"
    /\ IF ~isEditing
       THEN UNCHANGED vars
       ELSE LET point == Mini_getCanvasPoint(e)
            IN  /\ SpendGesture
                /\ isDrawing' = TRUE
                /\ lastPoint' = point
                /\ shapeStartPoint' = IF isShapeTool(tool) THEN point ELSE shapeStartPoint
                /\ UNCHANGED <<surface, isEditing, toolVars, themeVars, canvas, bgCanvas,
                               previewCanvas, historyVars, cellVars, pdfVars, track>>
    /\ UNCHANGED <<drawingCtx, store>>

Mini_handlePointerMove(e) ==
    /\ surface = "mini"
    /\ IF ~isDrawing \/ ~isEditing
       THEN UNCHANGED vars
       ELSE LET currentPoint == Mini_getCanvasPoint(e)
            IN  IF isShapeTool(tool)
                THEN IF shapeStartPoint = MiniNullPoint
                     THEN UNCHANGED vars
                     ELSE /\ previewCanvas' = Mini_drawShape(Blank, shapeStartPoint,
                                                             currentPoint, tool, TRUE,
                                                             brushSize, color, fillShape)
                          /\ UNCHANGED <<surface, isDrawing, isEditing, toolVars, themeVars,
                                         lastPoint, shapeStartPoint, canvas, bgCanvas,
                                         historyVars, cellVars, pdfVars, budgetVars, track>>
                ELSE IF lastPoint = MiniNullPoint
                     THEN UNCHANGED vars
                     ELSE /\ canvas' = Mini_drawLine(canvas, lastPoint, currentPoint, tool,
                                                     brushSize, color)
                          /\ lastPoint' = currentPoint
                          /\ UNCHANGED <<surface, isDrawing, isEditing, toolVars, themeVars,
                                         shapeStartPoint, bgCanvas, previewCanvas,
                                         historyVars, cellVars, pdfVars, budgetVars, track>>
    /\ UNCHANGED <<drawingCtx, store>>

Mini_handlePointerUp(e) ==
    /\ surface = "mini"
    /\ IF ~isDrawing
       THEN UNCHANGED vars
       ELSE LET shape == isShapeTool(tool) /\ shapeStartPoint # MiniNullPoint
            IN  /\ canvas' = IF shape
                             THEN Mini_drawShape(canvas, shapeStartPoint,
                                                 Mini_getCanvasPoint(e), tool, FALSE,
                                                 brushSize, color, fillShape)
                             ELSE canvas
                /\ previewCanvas' = IF shape THEN Blank ELSE previewCanvas
                /\ shapeStartPoint' = IF shape THEN MiniNullPoint ELSE shapeStartPoint
                /\ isDrawing' = FALSE
                /\ lastPoint' = MiniNullPoint
                /\ UNCHANGED <<surface, isEditing, toolVars, themeVars, bgCanvas,
                               historyVars, cellVars, pdfVars, budgetVars, track>>
    /\ UNCHANGED <<drawingCtx, store>>

Mini_onPointerUp(e) == Mini_handlePointerUp(e)
Mini_onPointerLeave(e) == Mini_handlePointerUp(e)

\* onUpdate stores the data URL in the cell; the effect then runs once for the
\* render in which cell.dataUrl and isEditing changed.
Mini_handleSave ==
    /\ surface = "mini"
    /\ isEditing
    /\ SpendCommand
    /\ dataUrl' = ToDataURL(canvas)
    /\ isEditing' = FALSE
    /\ Mini_initializeCanvases(dataUrl', background)
    /\ UNCHANGED <<surface, toolVars, themeVars, gestureVars, previewCanvas, historyVars,
                   pdfVars, track>>
    /\ UNCHANGED inserts
    /\ UNCHANGED <<drawingCtx, store>>

Mini_handleClear ==
    /\ surface = "mini"
    /\ isEditing
    /\ SpendCommand
    /\ canvas' = Mini_drawBackgroundOn(canvas, CANVAS_WIDTH, canvasSize.height, background)
    /\ UNCHANGED <<surface, isEditing, toolVars, themeVars, gestureVars, bgCanvas,
                   previewCanvas, historyVars, cellVars, pdfVars, track>>
    /\ UNCHANGED <<drawingCtx, store>>

\* "Editar" and the canvas onClick (true), "Cancelar" (false); isEditing is a
\* dependency of the initialize-canvases effect.
Mini_setIsEditing(b) ==
    /\ surface = "mini"
    /\ isEditing # b
    /\ SpendSetting
    /\ isEditing' = b
    /\ Mini_initializeCanvases(dataUrl, background)
    /\ UNCHANGED <<surface, toolVars, themeVars, gestureVars, previewCanvas, historyVars,
                   dataUrl, pdfVars, track>>
    /\ UNCHANGED inserts
    /\ UNCHANGED <<drawingCtx, store>>

Mini_setTool(t) ==
    /\ surface = "mini"
    /\ isEditing
    /\ t \in DrawingTools
    /\ t # tool
    /\ SpendSetting
    /\ tool' = t
    /\ UNCHANGED <<surface, isDrawing, isEditing, color, brushSize, fillShape, themeVars,
                   lastPoint, shapeStartPoint, canvas, bgCanvas, previewCanvas,
                   historyVars, cellVars, pdfVars, track>>
    /\ UNCHANGED <<drawingCtx, store>>

Mini_setFillShape ==
    /\ surface = "mini"
    /\ isEditing
    /\ isShapeTool(tool)
    /\ SpendSetting
    /\ fillShape' = ~fillShape
    /\ UNCHANGED <<surface, isDrawing, isEditing, tool, color, brushSize, themeVars,
                   lastPoint, shapeStartPoint, canvas, bgCanvas, previewCanvas,
                   historyVars, cellVars, pdfVars, track>>
    /\ UNCHANGED <<drawingCtx, store>>

\* The range input of the mini toolbar.
Mini_setBrushSize(n) ==
    /\ surface = "mini"
    /\ isEditing
    /\ n # brushSize
    /\ SpendSetting
    /\ brushSize' = n
    /\ UNCHANGED <<surface, isDrawing, isEditing, tool, color, fillShape, themeVars,
                   lastPoint, shapeStartPoint, canvas, bgCanvas, previewCanvas,
                   historyVars, cellVars, pdfVars, track>>
    /\ UNCHANGED <<drawingCtx, store>>

\* A resize drag of the handle below the canvas: handleResizeStart records the
\* pointer position and the height, and the mousemove listener sets the height
\* for a pointer deltaY below that position.  The new height attribute resets
\* the bitmaps of the three canvases, and the initialize-canvases effect runs
\* for the new canvasHeight.
Mini_handleMouseMove(deltaY) ==
    /\ surface = "mini"
    /\ isEditing
    /\ SpendCommand
    /\ LET newHeight == Max(100, Min(600, canvasSize.height + deltaY))
       IN  /\ newHeight # canvasSize.height
           /\ canvasSize' = [canvasSize EXCEPT !.height = newHeight]
           /\ bgCanvas' = Mini_drawBackground(CANVAS_WIDTH, newHeight, background)
           /\ IF dataUrl.mime # ""
              THEN /\ imgLoads' = IF \E i \in 1..Len(imgLoads) : imgLoads[i] = dataUrl
                                  THEN imgLoads ELSE Append(imgLoads, dataUrl)
                   /\ canvas' = Blank
              ELSE /\ canvas' = Mini_drawBackground(CANVAS_WIDTH, newHeight, background)
                   /\ UNCHANGED imgLoads
    /\ previewCanvas' = Blank
    /\ UNCHANGED <<surface, isEditing, toolVars, themeVars, gestureVars, historyVars,
                   dataUrl, inserts, pages, currentPageIndex, pdfDoc, requests,
                   renderTaskRef, errors, nReq, track>>
    /\ UNCHANGED <<drawingCtx, store>>

\* The background buttons of the mini toolbar; background is a dependency of
\* the initialize-canvases effect.
Mini_setBackground(b) ==
    /\ surface = "mini"
    /\ isEditing
    /\ SpendCommand
    /\ b \in BackgroundTypes
    /\ b # background
    /\ background' = b
    /\ Mini_initializeCanvases(dataUrl, b)
    /\ UNCHANGED <<surface, isDrawing, isEditing, toolVars, isDarkMode, lastPoint,
                   shapeStartPoint, previewCanvas, historyVars, dataUrl, inserts, pdfVars,
                   track>>
    /\ UNCHANGED <<drawingCtx, store>>
(***************************************************************************)
(* PDFCell (the PDF annotation cell)                                       *)
(***************************************************************************)

\* What page.render() paints for PDF page n, and the height of its viewport
\* once scaled to the width of the canvas.
PageImage(n) == [p \in Pixels |-> IF n = 1 THEN "page 1" ELSE "page 2"]
PageHeight(n) == IF n = 1 THEN 1000 ELSE 1200

\* page.getViewport({ scale }) with scale = pdfCanvas.width / the page's width.
getViewport(n, size) == [width |-> size.width, height |-> PageHeight(n)]

\* currentPage = cell.pages[currentPageIndex]
currentPage == pages[currentPageIndex + 1]

\* renderTask.cancel() on the task the ref holds: a task still rendering will
\* reject with RenderingCancelledException, a settled one is not affected.
cancel(reqs, id) ==
    {IF r.id = id /\ r.phase = "render" THEN [r EXCEPT !.cancelled = TRUE] ELSE r : r \in reqs}

\* The overlay canvas is displayed at half its pixel size.
PDF_getCanvasPoint(e) ==
    LET rect == [left |-> 0, top |-> 0, width |-> canvasSize.width \div 2,
                 height |-> canvasSize.height \div 2]
    IN  [x |-> (e.clientX - rect.left) * (canvasSize.width \div rect.width),
         y |-> (e.clientY - rect.top) * (canvasSize.height \div rect.height),
         pressure |-> IF e.pressure = 0 THEN 50 ELSE e.pressure]

\* globalCompositeOperation 'multiply' with globalAlpha 0.3 over a pixel.
Multiply(dest) ==
    CASE dest = Transparent -> "highlight"
      [] dest = "highlight" -> "highlight x2"
      [] OTHER -> "multiplied"

\* ctx.lineWidth of PDFCell's drawLine, in eighths of a px.
PDF_lineSize(t, size, from, to) ==
    CASE t = "eraser" -> 8 * (size * 3)
      [] t = "highlighter" -> 8 * (size * 4)
      [] OTHER -> (size * (100 + from.pressure + to.pressure)) \div 25

\* The drawing state drawLine sets for the tool before it strokes: the eraser
\* branch sets no globalAlpha.
PDF_toolCtx(ctx, t) ==
    CASE t = "eraser" -> [ctx EXCEPT !.globalCompositeOperation = "destination-out"]
      [] t = "highlighter" -> [globalCompositeOperation |-> "multiply", globalAlpha |-> 30]
      [] OTHER -> [globalCompositeOperation |-> "source-over", globalAlpha |-> 100]

\* ctx.stroke() of colour c over a pixel in drawing state ctx.
PDF_strokePixel(ctx, dest, c) ==
    CASE ctx.globalCompositeOperation = "destination-out" ->
            IF ctx.globalAlpha = 100 \/ dest = Transparent THEN Transparent ELSE "faded"
      [] ctx.globalCompositeOperation = "multiply" -> Multiply(dest)
      [] OTHER -> IF ctx.globalAlpha = 100 THEN c ELSE "tinted"

\* drawLine that leaves the drawing state as the tool branch set it.
PDF_drawLineOn_NoReset(ctx, cv, from, to, t, size, c) ==
    LET w8 == PDF_lineSize(t, size, from, to)
        region == StrokeSegment(from.x, from.y, to.x, to.y, w8)
        set == PDF_toolCtx(ctx, t)
    IN  [pixels |-> [p \in Pixels |->
                        IF p \notin region THEN cv[p] ELSE PDF_strokePixel(set, cv[p], c)],
         ctx |-> set]

\* drawLine on a context in drawing state ctx: the pixels of the canvas and
\* the drawing state it leaves behind.
PDF_drawLineOn(ctx, cv, from, to, t, size, c) ==
    LET w8 == PDF_lineSize(t, size, from, to)
        region == StrokeSegment(from.x, from.y, to.x, to.y, w8)
        set == PDF_toolCtx(ctx, t)
    IN  [pixels |-> [p \in Pixels |->
                        IF p \notin region THEN cv[p] ELSE PDF_strokePixel(set, cv[p], c)],
         ctx |-> [globalCompositeOperation |-> "source-over", globalAlpha |-> 100]]

PDF_drawLine(cv, from, to, t, size, c) ==
    PDF_drawLineOn(DefaultCtx, cv, from, to, t, size, c).pixels

\* The scenario observer after the overlay was (re)loaded: the surface is
\* freshly initialized when this is its first history entry and nothing else
\* is in flight.
PDF_TrackLoaded(cv, reqs, loads) ==
    IF historyRef = <<>> /\ reqs = {} /\ loads = <<>> /\ ~isDrawing
    THEN TrackStart(cv) ELSE NoTrack

\* The render-current-page effect after a render that changed one of its
\* dependencies: the cleanup of the previous run, then renderPage() up to its
\* first await.
renderPageWith(page, customPageBackground) ==
    LET cancelled == cancel(requests, renderTaskRef)
    IN  /\ renderTaskRef' = 0
        /\ UNCHANGED <<canvasSize, errors>>
        /\ IF page.isCustomPage
           THEN /\ bgCanvas' = drawBackground(canvasSize.width, canvasSize.height,
                                              customPageBackground, isDarkMode)
                /\ requests' = cancelled
                /\ UNCHANGED nReq
                /\ IF page.customDrawingDataUrl.mime # ""
                   THEN /\ imgLoads' = Append(imgLoads, page.customDrawingDataUrl)
                        /\ track' = NoTrack
                        /\ UNCHANGED <<canvas, historyVars>>
                   ELSE LET h == saveToHistory(historyRef, historyIndexRef, Blank)
                        IN  /\ canvas' = Blank
                            /\ historyRef' = h.history
                            /\ historyIndexRef' = h.index
                            /\ track' = PDF_TrackLoaded(Blank, cancelled, imgLoads)
                            /\ UNCHANGED imgLoads
           ELSE IF page.pageNumber # 0
           THEN /\ requests' = cancelled \cup
                        {[id |-> nReq + 1, page |-> page, phase |-> "getPage",
                          cancelled |-> FALSE]}
                /\ nReq' = nReq + 1
                /\ track' = NoTrack
                /\ UNCHANGED <<bgCanvas, canvas, historyVars, imgLoads>>
           ELSE /\ requests' = cancelled
                /\ track' = NoTrack
                /\ UNCHANGED <<nReq, bgCanvas, canvas, historyVars, imgLoads>>

renderPage(page) == renderPageWith(page, background)

\* loadPdf: getDocument resolves and setPdfDoc runs the render effect.
loadPdf ==
    /\ surface = "pdf"
    /\ ~pdfDoc
    /\ pdfDoc' = TRUE
    /\ renderPage(currentPage)
    /\ UNCHANGED <<surface, isEditing, toolVars, themeVars, gestureVars, previewCanvas,
                   dataUrl, pages, currentPageIndex, budgetVars>>
    /\ UNCHANGED inserts
    /\ UNCHANGED <<drawingCtx, store>>

\* await pdfDoc.getPage(...) of request r resolves: the canvases are resized
\* (which clears them) and the render task is started and stored in the ref.
getPageResolve(r) ==
    /\ surface = "pdf"
    /\ r \in requests
    /\ r.phase = "getPage"
    /\ canvasSize' = getViewport(r.page.pageNumber, canvasSize)
    /\ bgCanvas' = Blank
    /\ canvas' = Blank
    /\ renderTaskRef' = r.id
    /\ requests' = (requests \ {r}) \cup {[r EXCEPT !.phase = "render"]}
    /\ track' = NoTrack
    /\ UNCHANGED <<surface, isEditing, toolVars, themeVars, gestureVars, previewCanvas,
                   historyVars, cellVars, pages, currentPageIndex, pdfDoc, errors, nReq,
                   budgetVars>>
    /\ drawingCtx' = DefaultCtx
    /\ UNCHANGED store

\* await renderTask.promise of request r resolves: the page is painted and the
\* overlay of the request's page is loaded.
renderResolve(r) ==
    /\ surface = "pdf"
    /\ r \in requests
    /\ r.phase = "render"
    /\ ~r.cancelled
    /\ bgCanvas' = PageImage(r.page.pageNumber)
    /\ requests' = requests \ {r}
    /\ IF r.page.drawingDataUrl.mime # ""
       THEN /\ imgLoads' = Append(imgLoads, r.page.drawingDataUrl)
            /\ track' = NoTrack
            /\ UNCHANGED <<canvas, historyVars>>
       ELSE LET h == saveToHistory(historyRef, historyIndexRef, Blank)
            IN  /\ canvas' = Blank
                /\ historyRef' = h.history
                /\ historyIndexRef' = h.index
                /\ track' = PDF_TrackLoaded(Blank, requests', imgLoads)
                /\ UNCHANGED imgLoads
    /\ UNCHANGED <<surface, isEditing, toolVars, themeVars, gestureVars, previewCanvas,
                   dataUrl, pages, currentPageIndex, pdfDoc, renderTaskRef, canvasSize,
                   errors, nReq, budgetVars>>
    /\ UNCHANGED inserts
    /\ UNCHANGED <<drawingCtx, store>>

\* The promise of a cancelled task rejects with RenderingCancelledException,
\* which the catch block ignores.
renderRejectCancelled(r) ==
    /\ surface = "pdf"
    /\ r \in requests
    /\ r.phase = "render"
    /\ r.cancelled
    /\ requests' = requests \ {r}
    /\ UNCHANGED <<surface, isEditing, toolVars, themeVars, gestureVars, canvas, bgCanvas,
                   previewCanvas, historyVars, cellVars, pages, currentPageIndex, pdfDoc,
                   renderTaskRef, canvasSize, errors, nReq, budgetVars, track>>
    /\ UNCHANGED <<drawingCtx, store>>

\* The promise rejects with any other error, which the catch block reports
\* with console.error.
renderReject(r) ==
    /\ surface = "pdf"
    /\ r \in requests
    /\ r.phase = "render"
    /\ ~r.cancelled
    /\ requests' = requests \ {r}
    /\ errors' = errors + 1
    /\ UNCHANGED <<surface, isEditing, toolVars, themeVars, gestureVars, canvas, bgCanvas,
                   previewCanvas, historyVars, cellVars, pages, currentPageIndex, pdfDoc,
                   renderTaskRef, canvasSize, nReq, budgetVars, track>>
    /\ UNCHANGED <<drawingCtx, store>>

\* img.onload of an overlay image.
PDF_imgOnload(i) ==
    /\ surface = "pdf"
    /\ i \in 1..Len(imgLoads)
    /\ imgLoads' = SubSeq(imgLoads, 1, i - 1) \o SubSeq(imgLoads, i + 1, Len(imgLoads))
    /\ LET drawn == DrawImage(ClearRect(canvas), imgLoads[i].pixels)
           h == saveToHistory(historyRef, historyIndexRef, drawn)
       IN  /\ canvas' = drawn
           /\ historyRef' = h.history
           /\ historyIndexRef' = h.index
           /\ track' = PDF_TrackLoaded(drawn, requests, imgLoads')
    /\ UNCHANGED <<surface, isEditing, toolVars, themeVars, gestureVars, bgCanvas,
                   previewCanvas, dataUrl, pdfVars, budgetVars>>
    /\ UNCHANGED inserts
    /\ UNCHANGED <<drawingCtx, store>>

\* The i-th pending overlay image fails to decode: no handler is registered
\* for the error event.
PDF_imgOnerror(i) ==
    /\ surface = "pdf"
    /\ i \in 1..Len(imgLoads)
    /\ imgLoads' = SubSeq(imgLoads, 1, i - 1) \o SubSeq(imgLoads, i + 1, Len(imgLoads))
    /\ track' = NoTrack
    /\ UNCHANGED <<surface, isEditing, toolVars, themeVars, gestureVars, canvas, bgCanvas,
                   previewCanvas, historyVars, dataUrl, pdfVars, budgetVars>>
    /\ UNCHANGED inserts
    /\ UNCHANGED <<drawingCtx, store>>

\* The previous/next page buttons: i is the clamped neighbour index.
setCurrentPageIndex(i) ==
    /\ surface = "pdf"
    /\ pdfDoc
    /\ i \in {Max(0, currentPageIndex - 1), Min(Len(pages) - 1, currentPageIndex + 1)}
    /\ i # currentPageIndex
    /\ SpendCommand
    /\ currentPageIndex' = i
    /\ renderPage(pages[i + 1])
    /\ UNCHANGED <<surface, isEditing, toolVars, themeVars, gestureVars, previewCanvas,
                   dataUrl, pages, pdfDoc>>
    /\ UNCHANGED inserts
    /\ UNCHANGED <<drawingCtx, store>>

PDF_undo_Wraps ==
    /\ surface = "pdf"
    /\ isEditing
    /\ IF historyRef # <<>>
       THEN /\ historyIndexRef' = IF historyIndexRef > 0 THEN historyIndexRef - 1
                                   ELSE Len(historyRef) - 1
            /\ canvas' = historyRef[historyIndexRef' + 1]
       ELSE UNCHANGED <<historyIndexRef, canvas>>
    /\ track' = TrackUndo
    /\ UNCHANGED <<surface, isEditing, toolVars, themeVars, gestureVars, bgCanvas,
                   previewCanvas, historyRef, cellVars, pdfVars, budgetVars>>
    /\ UNCHANGED <<drawingCtx, store>>

PDF_undo ==
    /\ surface = "pdf"
    /\ isEditing
    /\ IF historyIndexRef > 0
       THEN /\ historyIndexRef' = historyIndexRef - 1
            /\ canvas' = historyRef[historyIndexRef' + 1]
       ELSE UNCHANGED <<historyIndexRef, canvas>>
    /\ track' = TrackUndo
    /\ UNCHANGED <<surface, isEditing, toolVars, themeVars, gestureVars, bgCanvas,
                   previewCanvas, historyRef, cellVars, pdfVars, budgetVars>>
    /\ UNCHANGED <<drawingCtx, store>>

PDF_redo ==
    /\ surface = "pdf"
    /\ isEditing
    /\ IF historyIndexRef < Len(historyRef) - 1
       THEN /\ historyIndexRef' = historyIndexRef + 1
            /\ canvas' = historyRef[historyIndexRef' + 1]
       ELSE UNCHANGED <<historyIndexRef, canvas>>
    /\ track' = TrackRedo
    /\ UNCHANGED <<surface, isEditing, toolVars, themeVars, gestureVars, bgCanvas,
                   previewCanvas, historyRef, cellVars, pdfVars, budgetVars>>
    /\ UNCHANGED <<drawingCtx, store>>

PDF_handlePointerDown(e) ==
    /\ surface = "pdf"
    /\ IF ~isEditing
       THEN UNCHANGED vars
       ELSE /\ SpendGesture
            /\ isDrawing' = TRUE
            /\ lastPoint' = PDF_getCanvasPoint(e)
            /\ track' = TrackDown
            /\ UNCHANGED <<surface, isEditing, toolVars, themeVars, shapeStartPoint, canvas,
                           bgCanvas, previewCanvas, historyVars, cellVars, pdfVars>>
    /\ UNCHANGED <<drawingCtx, store>>

PDF_handlePointerMove(e) ==
    /\ surface = "pdf"
    /\ IF ~isDrawing \/ ~isEditing \/ lastPoint = NullPoint
       THEN UNCHANGED <<surface, isDrawing, isEditing, toolVars, themeVars, lastPoint,
                       shapeStartPoint, canvas, bgCanvas, previewCanvas, historyVars,
                       cellVars, pdfVars, drawingCtx, budgetVars, track>>
       ELSE LET currentPoint == PDF_getCanvasPoint(e)
                drawn == PDF_drawLineOn(drawingCtx, canvas, lastPoint, currentPoint,
                                        tool, brushSize, color)
            IN  /\ canvas' = drawn.pixels
                /\ drawingCtx' = drawn.ctx
                /\ lastPoint' = currentPoint
                /\ UNCHANGED <<surface, isDrawing, isEditing, toolVars, themeVars,
                               shapeStartPoint, bgCanvas, previewCanvas, historyVars,
                               cellVars, pdfVars, budgetVars, track>>
    /\ UNCHANGED store

PDF_handlePointerUp(e) ==
    /\ surface = "pdf"
    /\ IF ~isDrawing
       THEN UNCHANGED vars
       ELSE LET h == saveToHistory(historyRef, historyIndexRef, canvas)
            IN  /\ isDrawing' = FALSE
                /\ lastPoint' = NullPoint
                /\ historyRef' = h.history
                /\ historyIndexRef' = h.index
                /\ track' = IF isEditing THEN TrackGesture(canvas) ELSE NoTrack
                /\ UNCHANGED <<surface, isEditing, toolVars, themeVars, shapeStartPoint,
                               canvas, bgCanvas, previewCanvas, cellVars, pdfVars,
                               budgetVars>>
    /\ UNCHANGED <<drawingCtx, store>>

PDF_onPointerUp(e) == PDF_handlePointerUp(e)
PDF_onPointerLeave(e) == PDF_handlePointerUp(e)

handleSaveDrawing_PdfField ==
    /\ surface = "pdf"
    /\ isEditing
    /\ SpendCommand
    /\ pages' = [pages EXCEPT ![currentPageIndex + 1] =
                    [@ EXCEPT !.drawingDataUrl = ToDataURL(canvas)]]
    /\ isEditing' = FALSE
    /\ IF pdfDoc
       THEN renderPage(pages'[currentPageIndex + 1])
       ELSE UNCHANGED <<requests, renderTaskRef, canvasSize, errors, nReq, bgCanvas, canvas,
                        historyVars, imgLoads, track>>
    /\ UNCHANGED <<surface, toolVars, themeVars, gestureVars, previewCanvas, dataUrl,
                   currentPageIndex, pdfDoc>>
    /\ UNCHANGED inserts
    /\ UNCHANGED <<drawingCtx, store>>

\* onUpdate({ pages }) replaces the current page object, so the render effect
\* runs again for the same page.
handleSaveDrawing ==
    /\ surface = "pdf"
    /\ isEditing
    /\ SpendCommand
    /\ pages' = [pages EXCEPT ![currentPageIndex + 1] =
                    IF @.isCustomPage
                    THEN [@ EXCEPT !.customDrawingDataUrl = ToDataURL(canvas)]
                    ELSE [@ EXCEPT !.drawingDataUrl = ToDataURL(canvas)]]
    /\ isEditing' = FALSE
    /\ IF pdfDoc
       THEN renderPage(pages'[currentPageIndex + 1])
       ELSE UNCHANGED <<requests, renderTaskRef, canvasSize, errors, nReq, bgCanvas, canvas,
                        historyVars, imgLoads, track>>
    /\ UNCHANGED <<surface, toolVars, themeVars, gestureVars, previewCanvas, dataUrl,
                   currentPageIndex, pdfDoc>>
    /\ UNCHANGED inserts
    /\ UNCHANGED <<drawingCtx, store>>

handleClearDrawing ==
    /\ surface = "pdf"
    /\ isEditing
    /\ SpendCommand
    /\ LET h == saveToHistory(historyRef, historyIndexRef, Blank)
       IN  /\ canvas' = ClearRect(canvas)
           /\ historyRef' = h.history
           /\ historyIndexRef' = h.index
    /\ track' = NoTrack
    /\ UNCHANGED <<surface, isEditing, toolVars, themeVars, gestureVars, bgCanvas,
                   previewCanvas, cellVars, pdfVars>>
    /\ UNCHANGED <<drawingCtx, store>>

\* "Anotar sobre PDF" and the overlay's onClick (true), "Cancelar" (false).
setIsEditingDrawing(b) ==
    /\ surface = "pdf"
    /\ isEditing # b
    /\ SpendSetting
    /\ isEditing' = b
    /\ track' = IF isDrawing THEN NoTrack ELSE track
    /\ UNCHANGED <<surface, toolVars, themeVars, gestureVars, canvas, bgCanvas,
                   previewCanvas, historyVars, cellVars, pdfVars>>
    /\ UNCHANGED <<drawingCtx, store>>

PDF_setTool(t) ==
    /\ surface = "pdf"
    /\ isEditing
    /\ t \in PdfTools
    /\ t # tool
    /\ SpendSetting
    /\ tool' = t
    /\ UNCHANGED <<surface, isDrawing, isEditing, color, brushSize, fillShape, themeVars,
                   lastPoint, shapeStartPoint, canvas, bgCanvas, previewCanvas,
                   historyVars, cellVars, pdfVars, track>>
    /\ UNCHANGED <<drawingCtx, store>>

\* The "Grosor" range input of the overlay toolbar.
PDF_setBrushSize(n) ==
    /\ surface = "pdf"
    /\ isEditing
    /\ n # brushSize
    /\ SpendSetting
    /\ brushSize' = n
    /\ UNCHANGED <<surface, isDrawing, isEditing, tool, color, fillShape, themeVars,
                   lastPoint, shapeStartPoint, canvas, bgCanvas, previewCanvas,
                   historyVars, cellVars, pdfVars, track>>
    /\ UNCHANGED <<drawingCtx, store>>

\* The new page is pushed at the end of the list instead of being spliced in.
addPageAfterCurrent_AtEnd(type) ==
    /\ surface = "pdf"
    /\ pdfDoc
    /\ type \in BackgroundTypes
    /\ SpendCommand
    /\ LET newPage == [pageNumber |-> 0, isCustomPage |-> TRUE,
                       drawingDataUrl |-> NoDataUrl, customDrawingDataUrl |-> NoDataUrl,
                       chosen |-> type]
       IN  /\ pages' = Append(pages, newPage)
           /\ currentPageIndex' = currentPageIndex + 1
           /\ background' = type
           /\ renderPageWith(newPage, type)
    /\ UNCHANGED <<surface, isEditing, toolVars, isDarkMode, gestureVars, previewCanvas,
                   dataUrl, pdfDoc, inserts>>
    /\ UNCHANGED <<drawingCtx, store>>

\* addPageAfterCurrent(type): a new custom page is spliced in after the
\* current one and becomes the current page; customPageBackground is set to
\* the type, and the render effect runs for the new page.  (chosen records
\* the type the page was added with; the page object of the code has no such
\* field.)
addPageAfterCurrent(type) ==
    /\ surface = "pdf"
    /\ pdfDoc
    /\ type \in BackgroundTypes
    /\ SpendCommand
    /\ LET newPage == [pageNumber |-> 0, isCustomPage |-> TRUE,
                       drawingDataUrl |-> NoDataUrl, customDrawingDataUrl |-> NoDataUrl,
                       chosen |-> type]
       IN  /\ pages' = SubSeq(pages, 1, currentPageIndex + 1) \o <<newPage>> \o
                        SubSeq(pages, currentPageIndex + 2, Len(pages))
           /\ currentPageIndex' = currentPageIndex + 1
           /\ background' = type
           /\ renderPageWith(newPage, type)
    /\ UNCHANGED <<surface, isEditing, toolVars, isDarkMode, gestureVars, previewCanvas,
                   dataUrl, pdfDoc, inserts>>
    /\ UNCHANGED <<drawingCtx, store>>

\* deletePage (the button is rendered for a custom current page): the current
\* page is filtered out unless it is the only one, the index is pulled back
\* when it fell off the end, and the render effect runs for the page now
\* current.
deletePage ==
    /\ surface = "pdf"
    /\ pdfDoc
    /\ currentPage.isCustomPage
    /\ SpendCommand
    /\ IF Len(pages) <= 1
       THEN UNCHANGED <<pages, currentPageIndex, bgCanvas, canvas, historyVars, imgLoads,
                        requests, renderTaskRef, canvasSize, errors, nReq, track>>
       ELSE LET updatedPages == SubSeq(pages, 1, currentPageIndex) \o
                                SubSeq(pages, currentPageIndex + 2, Len(pages))
                index == IF currentPageIndex >= Len(updatedPages)
                         THEN Len(updatedPages) - 1 ELSE currentPageIndex
            IN  /\ pages' = updatedPages
                /\ currentPageIndex' = index
                /\ renderPage(updatedPages[index + 1])
    /\ UNCHANGED <<surface, isEditing, toolVars, themeVars, gestureVars, previewCanvas,
                   dataUrl, pdfDoc, inserts>>
    /\ UNCHANGED <<drawingCtx, store>>

(***************************************************************************)
(* useProjects (the project store: projects, notebooks and their cells)    *)
(***************************************************************************)
\* uuidv4() values are modelled as serial numbers; 0 stands for null and for
\* undefined.  The store's field uuids counts the ids generated so far.
MaxIds == 5

\* Cell types used by the sample (CellType).
CellTypes == {"markdown", "drawing"}

\* Everything but the store: the components do not take part in store
\* operations.
componentVars == <<surface, isDrawing, isEditing, tool, color, brushSize, fillShape,
                   background, isDarkMode, lastPoint, shapeStartPoint, canvas, bgCanvas,
                   previewCanvas, historyRef, historyIndexRef, dataUrl, imgLoads, inserts,
                   pages, currentPageIndex, pdfDoc, requests, renderTaskRef, canvasSize,
                   drawingCtx, errors, nReq, nOps, nSwitch, track>>

\* createNotebook(projectId), createProject(name, parentId), createCell(type)
createNotebook(id, projectId) == [id |-> id, projectId |-> projectId, cells |-> <<>>]
createProject(id, parentId) == [id |-> id, parentId |-> parentId]
createCell(id, type) == [id |-> id, type |-> type]

createInitialStore ==
    [projects |-> <<>>, notebooks |-> <<createNotebook(1, 0)>>, activeNotebookId |-> 1,
     uuids |-> 1]

\* cells.findIndex(c => c.id === id): 0-based, -1 when no cell matches.
findIndex(cells, id) ==
    IF \E i \in 1..Len(cells) : cells[i].id = id
    THEN (CHOOSE i \in 1..Len(cells) :
             cells[i].id = id /\ \A j \in 1..(i - 1) : cells[j].id # id) - 1
    ELSE -1
\* array.slice(from) and array.slice(0, to), 0-based
sliceFrom(seq, from) == SubSeq(seq, from + 1, Len(seq))
sliceTo(seq, to) == SubSeq(seq, 1, to)

ProjectIds(st) == {st.projects[i].id : i \in 1..Len(st.projects)}
NotebookIds(st) == {st.notebooks[i].id : i \in 1..Len(st.notebooks)}

\* getAllChildProjectIds(parentId) of deleteProject and moveProject: the ids
\* of the children and, recursively, of theirs.
RECURSIVE getAllChildProjectIds(_, _)
getAllChildProjectIds(projects, parentId) ==
    LET children == {projects[i].id : i \in {j \in 1..Len(projects) :
                                                projects[j].parentId = parentId}}
    IN  children \cup UNION {getAllChildProjectIds(projects, c) : c \in children}

addProject(parentId) ==
    /\ store.uuids < MaxIds
    /\ store' = [store EXCEPT !.projects = Append(@, createProject(store.uuids + 1, parentId)),
                              !.uuids = @ + 1]
    /\ UNCHANGED componentVars

\* deleteProject that removes the project alone, without its subprojects.
deleteProject_OnlyItself(id) ==
    /\ LET projectIdsToDelete == {id}
           Orphaned(n) == IF n.projectId # 0 /\ n.projectId \in projectIdsToDelete
                          THEN [n EXCEPT !.projectId = 0] ELSE n
           Kept(p) == p.id \notin projectIdsToDelete
       IN  store' = [store EXCEPT !.projects = SelectSeq(@, Kept),
                                  !.notebooks = [i \in 1..Len(@) |-> Orphaned(@[i])]]
    /\ UNCHANGED componentVars

deleteProject(id) ==
    /\ LET projectIdsToDelete == {id} \cup getAllChildProjectIds(store.projects, id)
           Orphaned(n) == IF n.projectId # 0 /\ n.projectId \in projectIdsToDelete
                          THEN [n EXCEPT !.projectId = 0] ELSE n
           Kept(p) == p.id \notin projectIdsToDelete
       IN  store' = [store EXCEPT !.projects = SelectSeq(@, Kept),
                                  !.notebooks = [i \in 1..Len(@) |-> Orphaned(@[i])]]
    /\ UNCHANGED componentVars

\* moveProject without the check of the new parent.
moveProject_Unguarded(id, newParentId) ==
    /\ LET Moved(p) == IF p.id = id THEN [p EXCEPT !.parentId = newParentId] ELSE p
       IN  store' = [store EXCEPT !.projects = [i \in 1..Len(@) |-> Moved(@[i])]]
    /\ UNCHANGED componentVars

moveProject(id, newParentId) ==
    /\ IF newParentId # 0 /\ (newParentId = id \/
                              newParentId \in getAllChildProjectIds(store.projects, id))
       THEN UNCHANGED store
       ELSE LET Moved(p) == IF p.id = id THEN [p EXCEPT !.parentId = newParentId] ELSE p
            IN  store' = [store EXCEPT !.projects = [i \in 1..Len(@) |-> Moved(@[i])]]
    /\ UNCHANGED componentVars

addNotebook(projectId) ==
    /\ store.uuids < MaxIds
    /\ store' = [store EXCEPT !.notebooks = Append(@, createNotebook(store.uuids + 1, projectId)),
                              !.activeNotebookId = store.uuids + 1,
                              !.uuids = @ + 1]
    /\ UNCHANGED componentVars

selectNotebook(id) ==
    /\ store' = [store EXCEPT !.activeNotebookId = id]
    /\ UNCHANGED componentVars

\* deleteNotebook that leaves activeNotebookId as it is.
deleteNotebook_KeepsSelection(id) ==
    /\ LET Other(n) == n.id # id
       IN  store' = [store EXCEPT !.notebooks = SelectSeq(@, Other)]
    /\ UNCHANGED componentVars

deleteNotebook(id) ==
    /\ LET Other(n) == n.id # id
           notebooks == SelectSeq(store.notebooks, Other)
           activeNotebookId == IF store.activeNotebookId = id
                               THEN IF Len(notebooks) > 0 THEN notebooks[1].id ELSE 0
                               ELSE store.activeNotebookId
       IN  store' = [store EXCEPT !.notebooks = notebooks,
                                  !.activeNotebookId = activeNotebookId]
    /\ UNCHANGED componentVars

\* addCell(type, afterId); afterId = 0 when the argument is not given.
addCell(type, afterId) ==
    /\ store.uuids < MaxIds
    /\ IF store.activeNotebookId = 0
       THEN UNCHANGED store
       ELSE LET newCell == createCell(store.uuids + 1, type)
                WithCell(notebook) ==
                    IF notebook.id # store.activeNotebookId THEN notebook
                    ELSE IF afterId # 0
                    THEN LET index == findIndex(notebook.cells, afterId)
                         IN  [notebook EXCEPT !.cells =
                                 sliceTo(notebook.cells, index + 1) \o <<newCell>> \o
                                 sliceFrom(notebook.cells, index + 1)]
                    ELSE [notebook EXCEPT !.cells = Append(@, newCell)]
            IN  store' = [store EXCEPT !.notebooks = [i \in 1..Len(@) |-> WithCell(@[i])], !.uuids = @ + 1]
    /\ UNCHANGED componentVars
(***************************************************************************)
(* Initial states and specifications                                       *)
(***************************************************************************)
\* A drawing saved earlier: the blank light background with a diagonal line.
SavedDrawing ==
    ToDataURL(Paint(drawBackground(DEFAULT_CANVAS_WIDTH, DEFAULT_CANVAS_HEIGHT, "blank", FALSE),
                    StrokeSegment(10, 10, 30, 30, 24), "#000000"))

\* An annotation overlay saved earlier: a horizontal red line on transparency.
SavedOverlay == ToDataURL(Paint(Blank, StrokeSegment(10, 20, 30, 20, 24), "#ef4444"))

\* The components other than PDFCell have no pages and no renders; their
\* canvases have the size the cell gives them.
NoPdf ==
    /\ pages = <<>>
    /\ currentPageIndex = 0
    /\ pdfDoc = FALSE
    /\ requests = {}
    /\ renderTaskRef = 0
    /\ canvasSize = IF surface = "mini"
                    THEN [width |-> CANVAS_WIDTH, height |-> canvasHeight]
                    ELSE [width |-> DEFAULT_CANVAS_WIDTH, height |-> DEFAULT_CANVAS_HEIGHT]
    /\ errors = 0
    /\ nReq = 0

\* The drawing cell after its first render and effects (light document): a
\* new cell, or one holding a saved drawing whose image is still loading.
InitDrawing ==
    /\ surface = "drawing"
    /\ dataUrl \in {NoDataUrl, SavedDrawing}
    /\ isDrawing = FALSE
    /\ isEditing = (dataUrl.mime = "")
    /\ tool = "pen"
    /\ color = "#000000"
    /\ brushSize = 3
    /\ fillShape = FALSE
    /\ background = "blank"
    /\ isDarkMode = FALSE
    /\ lastPoint = NullPoint
    /\ shapeStartPoint = NullPoint
    /\ bgCanvas = drawBackground(DEFAULT_CANVAS_WIDTH, DEFAULT_CANVAS_HEIGHT, "blank", FALSE)
    /\ previewCanvas = Blank
    /\ canvas = IF dataUrl.mime = ""
                THEN drawBackground(DEFAULT_CANVAS_WIDTH, DEFAULT_CANVAS_HEIGHT, "blank", FALSE)
                ELSE Blank
    /\ historyRef = IF dataUrl.mime = "" THEN <<canvas>> ELSE <<>>
    /\ historyIndexRef = Len(historyRef) - 1
    /\ imgLoads = IF dataUrl.mime = "" THEN <<>> ELSE <<dataUrl>>
    /\ inserts = <<>>
    /\ drawingCtx = DefaultCtx
    /\ store = createInitialStore
    /\ NoPdf
    /\ nOps = 0
    /\ nSwitch = 0
    /\ track = IF dataUrl.mime = "" THEN TrackStart(canvas) ELSE NoTrack

\* The mini drawing cell after its first render and effects: a new cell, or
\* one holding a saved drawing whose image is still loading.
InitMini ==
    /\ surface = "mini"
    /\ dataUrl \in {NoDataUrl, SavedDrawing}
    /\ isDrawing = FALSE
    /\ isEditing = (dataUrl.mime = "")
    /\ tool = "pen"
    /\ color = "#000000"
    /\ brushSize = 2
    /\ fillShape = FALSE
    /\ background = "blank"
    /\ isDarkMode = FALSE
    /\ lastPoint = MiniNullPoint
    /\ shapeStartPoint = MiniNullPoint
    /\ bgCanvas = Mini_drawBackground(CANVAS_WIDTH, canvasHeight, "blank")
    /\ previewCanvas = Blank
    /\ canvas = IF dataUrl.mime = ""
                THEN Mini_drawBackground(CANVAS_WIDTH, canvasHeight, "blank")
                ELSE Blank
    /\ historyRef = <<>>
    /\ historyIndexRef = -1
    /\ imgLoads = IF dataUrl.mime = "" THEN <<>> ELSE <<dataUrl>>
    /\ inserts = <<>>
    /\ drawingCtx = DefaultCtx
    /\ store = createInitialStore
    /\ NoPdf
    /\ nOps = 0
    /\ nSwitch = 0
    /\ track = NoTrack

\* The pages of the PDF cell: a two-page document whose second page has a
\* saved overlay.
InitPages ==
    << [pageNumber |-> 1, isCustomPage |-> FALSE, drawingDataUrl |-> NoDataUrl,
        customDrawingDataUrl |-> NoDataUrl, chosen |-> ""],
       [pageNumber |-> 2, isCustomPage |-> FALSE, drawingDataUrl |-> SavedOverlay,
        customDrawingDataUrl |-> NoDataUrl, chosen |-> ""] >>

\* The PDF cell after its first render, before the document has loaded.
InitPdf ==
    /\ surface = "pdf"
    /\ dataUrl = NoDataUrl
    /\ isDrawing = FALSE
    /\ isEditing = FALSE
    /\ tool = "pen"
    /\ color = "#ef4444"
    /\ brushSize = 3
    /\ fillShape = FALSE
    /\ background = "lines"
    /\ isDarkMode = FALSE
    /\ lastPoint = NullPoint
    /\ shapeStartPoint = NullPoint
    /\ bgCanvas = Blank
    /\ previewCanvas = Blank
    /\ canvas = Blank
    /\ historyRef = <<>>
    /\ historyIndexRef = -1
    /\ imgLoads = <<>>
    /\ inserts = <<>>
    /\ drawingCtx = DefaultCtx
    /\ store = createInitialStore
    /\ pages = InitPages
    /\ currentPageIndex = 0
    /\ pdfDoc = FALSE
    /\ requests = {}
    /\ renderTaskRef = 0
    /\ canvasSize = [width |-> 800, height |-> 1000]
    /\ errors = 0
    /\ nReq = 0
    /\ nOps = 0
    /\ nSwitch = 0
    /\ track = NoTrack

DrawingNext ==
    \/ \E e \in PointerEvents : handlePointerDown(e)
    \/ \E e \in PointerEvents : handlePointerMove(e)
    \/ \E e \in PointerEvents : onPointerUp(e)
    \/ \E e \in PointerEvents : onPointerLeave(e)
    \/ undo
    \/ redo
    \/ handleClear
    \/ handleSave
    \/ \E b \in BOOLEAN : setIsEditing(b)
    \/ \E t \in DrawingTools : setTool(t)
    \/ setFillShape
    \/ \E i \in 1..Len(imgLoads) : imgOnload(i)
    \/ \E b \in BackgroundTypes : setBackground(b)
    \/ \E d \in BOOLEAN : checkDarkMode(d)

MiniNext ==
    \/ \E e \in PointerEvents : Mini_handlePointerDown(e)
    \/ \E e \in PointerEvents : Mini_handlePointerMove(e)
    \/ \E e \in PointerEvents : Mini_onPointerUp(e)
    \/ \E e \in PointerEvents : Mini_onPointerLeave(e)
    \/ Mini_handleClear
    \/ Mini_handleSave
    \/ \E b \in BOOLEAN : Mini_setIsEditing(b)
    \/ \E t \in DrawingTools : Mini_setTool(t)
    \/ Mini_setFillShape
    \/ \E i \in 1..Len(imgLoads) : Mini_imgOnload(i)

PdfNext ==
    \/ loadPdf
    \/ \E r \in requests : getPageResolve(r)
    \/ \E r \in requests : renderResolve(r)
    \/ \E r \in requests : renderRejectCancelled(r)
    \/ \E r \in requests : renderReject(r)
    \/ \E i \in 1..Len(imgLoads) : PDF_imgOnload(i)
    \/ \E i \in 0..(Len(pages) - 1) : setCurrentPageIndex(i)
    \/ \E e \in PointerEvents : PDF_handlePointerDown(e)
    \/ \E e \in PointerEvents : PDF_handlePointerMove(e)
    \/ \E e \in PointerEvents : PDF_onPointerUp(e)
    \/ \E e \in PointerEvents : PDF_onPointerLeave(e)
    \/ PDF_undo
    \/ PDF_redo
    \/ handleClearDrawing
    \/ handleSaveDrawing
    \/ \E b \in BOOLEAN : setIsEditingDrawing(b)
    \/ \E t \in PdfTools : PDF_setTool(t)

Init == InitDrawing \/ InitMini \/ InitPdf
Next == DrawingNext \/ MiniNext \/ PdfNext
Spec == Init /\ [][Next]_vars

(***************************************************************************)
(* A surface late in an editing session, for the history cap                *)
(***************************************************************************)
\* How many gestures the session has completed before the behaviour starts.
PreGestures == 49

\* The two ends of the session's strokes: the points of the pointer events.
ScriptFrom == [x |-> 10, y |-> 10, pressure |-> 50]
ScriptTo == [x |-> 30, y |-> 30, pressure |-> 100]

\* The session's n-th gesture, applied to the ink cv of surface s: a pen
\* stroke, or an eraser stroke over it, in turn.
ScriptGesture(s, n, cv) ==
    LET t == IF n % 2 = 1 THEN "pen" ELSE "eraser"
    IN  IF s = "pdf"
        THEN PDF_drawLine(cv, ScriptFrom, ScriptTo, t, 3, "#ef4444")
        ELSE drawLine(cv, ScriptFrom, ScriptTo, t, 3, "#000000", FALSE)

\* The surface after n gestures of the session, starting from the initialized
\* surface: each gesture paints the ink and pushes it.  (The comparison makes
\* TLC compute each ink before the next gesture paints on it.)
RECURSIVE Script(_, _)
Script(s, n) ==
    IF n = 0
    THEN LET ink == IF s = "pdf" THEN Blank
                    ELSE drawBackground(DEFAULT_CANVAS_WIDTH, DEFAULT_CANVAS_HEIGHT,
                                        "blank", FALSE)
         IN  [ink |-> ink, h |-> saveToHistory(<<>>, -1, ink)]
    ELSE LET prev == Script(s, n - 1)
             ink == ScriptGesture(s, n, prev.ink)
         IN  IF ink = prev.ink
             THEN [ink |-> prev.ink, h |-> saveToHistory(prev.h.history, prev.h.index, prev.ink)]
             ELSE [ink |-> ink, h |-> saveToHistory(prev.h.history, prev.h.index, ink)]

ScriptInk(s, n) == Script(s, n).ink
ScriptHistory(s, n) == Script(s, n).h

\* A new drawing cell, or a PDF cell showing its first page, in edit mode
\* after PreGestures completed gestures.
InitCap ==
    /\ surface \in {"drawing", "pdf"}
    /\ dataUrl = NoDataUrl
    /\ isDrawing = FALSE
    /\ isEditing = TRUE
    /\ tool = "pen"
    /\ color = IF surface = "pdf" THEN "#ef4444" ELSE "#000000"
    /\ brushSize = 3
    /\ fillShape = FALSE
    /\ background = IF surface = "pdf" THEN "lines" ELSE "blank"
    /\ isDarkMode = FALSE
    /\ lastPoint = NullPoint
    /\ shapeStartPoint = NullPoint
    /\ bgCanvas = IF surface = "pdf" THEN PageImage(1)
                  ELSE drawBackground(DEFAULT_CANVAS_WIDTH, DEFAULT_CANVAS_HEIGHT,
                                      "blank", FALSE)
    /\ previewCanvas = Blank
    /\ canvas = ScriptInk(surface, PreGestures)
    /\ historyRef = ScriptHistory(surface, PreGestures).history
    /\ historyIndexRef = ScriptHistory(surface, PreGestures).index
    /\ imgLoads = <<>>
    /\ inserts = <<>>
    /\ drawingCtx = DefaultCtx
    /\ store = createInitialStore
    /\ IF surface = "pdf"
       THEN /\ pages = InitPages
            /\ currentPageIndex = 0
            /\ pdfDoc = TRUE
            /\ requests = {}
            /\ renderTaskRef = 1
            /\ canvasSize = [width |-> 800, height |-> PageHeight(1)]
            /\ errors = 0
            /\ nReq = 1
       ELSE NoPdf
    /\ nOps = 0
    /\ nSwitch = 0
    /\ track = NoTrack

NextCap ==
    \/ \E e \in PointerEvents : handlePointerDown(e)
    \/ \E e \in PointerEvents : handlePointerMove(e)
    \/ \E e \in PointerEvents : onPointerUp(e)
    \/ undo
    \/ redo
    \/ handleClear
    \/ \E e \in PointerEvents : PDF_handlePointerDown(e)
    \/ \E e \in PointerEvents : PDF_handlePointerMove(e)
    \/ \E e \in PointerEvents : PDF_onPointerUp(e)
    \/ PDF_undo
    \/ PDF_redo
    \/ handleClearDrawing

SpecCap == InitCap /\ [][NextCap]_vars

(***************************************************************************)
(* A freshly initialized surface in an editing session of several gestures *)
(***************************************************************************)
\* How many gestures the session makes.
SessionGestures == 3

\* A new drawing cell, or a PDF cell that has just rendered its first page
\* and was switched to edit mode; the tool is changed between gestures only.
InitSession ==
    /\ surface \in {"drawing", "pdf"}
    /\ dataUrl = NoDataUrl
    /\ isDrawing = FALSE
    /\ isEditing = TRUE
    /\ tool = "pen"
    /\ color = IF surface = "pdf" THEN "#ef4444" ELSE "#000000"
    /\ brushSize = 3
    /\ fillShape = FALSE
    /\ background = IF surface = "pdf" THEN "lines" ELSE "blank"
    /\ isDarkMode = FALSE
    /\ lastPoint = NullPoint
    /\ shapeStartPoint = NullPoint
    /\ bgCanvas = IF surface = "pdf" THEN PageImage(1)
                  ELSE drawBackground(DEFAULT_CANVAS_WIDTH, DEFAULT_CANVAS_HEIGHT,
                                      "blank", FALSE)
    /\ previewCanvas = Blank
    /\ canvas = ScriptInk(surface, 0)
    /\ historyRef = ScriptHistory(surface, 0).history
    /\ historyIndexRef = ScriptHistory(surface, 0).index
    /\ imgLoads = <<>>
    /\ inserts = <<>>
    /\ drawingCtx = DefaultCtx
    /\ store = createInitialStore
    /\ IF surface = "pdf"
       THEN /\ pages = InitPages
            /\ currentPageIndex = 0
            /\ pdfDoc = TRUE
            /\ requests = {}
            /\ renderTaskRef = 1
            /\ canvasSize = [width |-> 800, height |-> PageHeight(1)]
            /\ errors = 0
            /\ nReq = 1
       ELSE NoPdf
    /\ nOps = MaxOps - SessionGestures
    /\ nSwitch = MaxSwitches
    /\ track = TrackStart(canvas)

NextSession ==
    \/ \E e \in PointerEvents : handlePointerDown(e)
    \/ \E e \in PointerEvents : handlePointerMove(e)
    \/ \E e \in PointerEvents : onPointerUp(e)
    \/ \E t \in DrawingTools : setTool(t)
    \/ undo
    \/ redo
    \/ \E e \in PointerEvents : PDF_handlePointerDown(e)
    \/ \E e \in PointerEvents : PDF_handlePointerMove(e)
    \/ \E e \in PointerEvents : PDF_onPointerUp(e)
    \/ \E t \in PdfTools : PDF_setTool(t)
    \/ PDF_undo
    \/ PDF_redo

SpecSession == InitSession /\ [][NextSession]_vars

(***************************************************************************)
(* A drawing cell re-opened from the payload of an earlier save            *)
(***************************************************************************)
\* The payloads handleSave emits for a blank drawing cell after one pen
\* gesture whose pointer-down and pointer-move are among the pointer events.
PenPayloads ==
    { ToDataURL(drawLine(drawBackground(DEFAULT_CANVAS_WIDTH, DEFAULT_CANVAS_HEIGHT,
                                        "blank", FALSE),
                         getCanvasPoint(a), getCanvasPoint(b), "pen", 3, "#000000", FALSE)) :
        a \in PointerEvents, b \in PointerEvents }

\* A newly mounted drawing cell whose cell.dataUrl is such a payload, after
\* its first render and effects: the image is still loading.
InitReopen ==
    /\ surface = "drawing"
    /\ dataUrl \in PenPayloads
    /\ isDrawing = FALSE
    /\ isEditing = FALSE
    /\ tool = "pen"
    /\ color = "#000000"
    /\ brushSize = 3
    /\ fillShape = FALSE
    /\ background = "blank"
    /\ isDarkMode = FALSE
    /\ lastPoint = NullPoint
    /\ shapeStartPoint = NullPoint
    /\ bgCanvas = drawBackground(DEFAULT_CANVAS_WIDTH, DEFAULT_CANVAS_HEIGHT, "blank", FALSE)
    /\ previewCanvas = Blank
    /\ canvas = Blank
    /\ historyRef = <<>>
    /\ historyIndexRef = -1
    /\ imgLoads = <<dataUrl>>
    /\ inserts = <<>>
    /\ drawingCtx = DefaultCtx
    /\ store = createInitialStore
    /\ NoPdf
    /\ nOps = 0
    /\ nSwitch = 0
    /\ track = NoTrack

NextReopen ==
    \/ \E i \in 1..Len(imgLoads) : imgOnload(i)
    \/ \E b \in BOOLEAN : setIsEditing(b)
    \/ \E e \in PointerEvents : handlePointerDown(e)
    \/ \E e \in PointerEvents : handlePointerMove(e)
    \/ \E e \in PointerEvents : onPointerUp(e)
    \/ undo
    \/ redo

SpecReopen == InitReopen /\ [][NextReopen]_vars

(***************************************************************************)
(* The cells with a document that holds an inserted custom page            *)
(***************************************************************************)
\* The pages of the PDF cell after addPageAfterCurrent on a one-page document:
\* the PDF page and the custom page, neither annotated yet.
SavePages ==
    << [pageNumber |-> 1, isCustomPage |-> FALSE, drawingDataUrl |-> NoDataUrl,
        customDrawingDataUrl |-> NoDataUrl, chosen |-> ""],
       [pageNumber |-> 0, isCustomPage |-> TRUE, drawingDataUrl |-> NoDataUrl,
        customDrawingDataUrl |-> NoDataUrl, chosen |-> "lines"] >>

\* The PDF cell before its document has loaded, showing either page (the
\* navigation buttons work while the document loads).
InitSavePdf ==
    /\ surface = "pdf"
    /\ dataUrl = NoDataUrl
    /\ isDrawing = FALSE
    /\ isEditing = FALSE
    /\ tool = "pen"
    /\ color = "#ef4444"
    /\ brushSize = 3
    /\ fillShape = FALSE
    /\ background = "lines"
    /\ isDarkMode = FALSE
    /\ lastPoint = NullPoint
    /\ shapeStartPoint = NullPoint
    /\ bgCanvas = Blank
    /\ previewCanvas = Blank
    /\ canvas = Blank
    /\ historyRef = <<>>
    /\ historyIndexRef = -1
    /\ imgLoads = <<>>
    /\ inserts = <<>>
    /\ drawingCtx = DefaultCtx
    /\ store = createInitialStore
    /\ pages = SavePages
    /\ currentPageIndex \in {0, 1}
    /\ pdfDoc = FALSE
    /\ requests = {}
    /\ renderTaskRef = 0
    /\ canvasSize = [width |-> 800, height |-> 1000]
    /\ errors = 0
    /\ nReq = 0
    /\ nOps = 0
    /\ nSwitch = 0
    /\ track = NoTrack

InitSave == InitDrawing \/ InitSavePdf
NextSave == DrawingNext \/ PdfNext
SpecSave == InitSave /\ [][NextSave]_vars

(***************************************************************************)
(* The cells when a saved image may fail to decode                         *)
(***************************************************************************)
InitDecode == InitDrawing \/ InitPdf

NextDecode ==
    \/ DrawingNext
    \/ PdfNext
    \/ \E i \in 1..Len(imgLoads) : imgOnerror(i)
    \/ \E i \in 1..Len(imgLoads) : PDF_imgOnerror(i)

SpecDecode == InitDecode /\ [][NextDecode]_vars


(***************************************************************************)
(* Image insertion into the drawing cell (handleInsertImage)               *)
(***************************************************************************)
\* How many commands (gestures, insertions) a behaviour of the insertion
\* session issues.
InsertCommands == 2

\* The files the file picker and the clipboard hand over: MIME type (the
\* parts before and after its '/'), the decoded raster's natural size (img.width, img.height) and its colour (the
\* rasters are opaque and of one colour).
Files ==
    { [type |-> <<"image", "png">>,  width |-> 1200, height |-> 600,  ink |-> "#a1"],
      [type |-> <<"image", "png">>,  width |-> 1000, height |-> 480,  ink |-> "#a2"],
      [type |-> <<"image", "jpeg">>, width |-> 780,  height |-> 380,  ink |-> "#a3"],
      [type |-> <<"image", "png">>,  width |-> 770,  height |-> 370,  ink |-> "#a4"],
      [type |-> <<"image", "png">>,  width |-> 400,  height |-> 400,  ink |-> "#a5"],
      [type |-> <<"image", "gif">>,  width |-> 100,  height |-> 1000, ink |-> "#a6"],
      [type |-> <<"image", "png">>,  width |-> 2000, height |-> 400,  ink |-> "#a7"],
      [type |-> <<"application", "pdf">>, width |-> 0, height |-> 0,  ink |-> Transparent],
      [type |-> <<"text", "plain">>, width |-> 0, height |-> 0,       ink |-> Transparent] }

\* file.type.startsWith('image/')
isImageType(type) == type[1] = "image"

\* The rectangle img.onload draws into, without the 1 in Math.min.
insertRect_NoCap(W, H, w, h) ==
    LET byWidth == W * h <= H * w
        num == IF byWidth THEN W ELSE H
        den == IF byWidth THEN w ELSE h
    IN  [num |-> num, den |-> den,
         x |-> W * den - w * num, y |-> H * den - h * num,
         width |-> 2 * w * num, height |-> 2 * h * num]

\* The rectangle img.onload of handleInsertImage draws into, for a canvas of
\* W x H and an image of w x h:
\*   scale = Math.min(W / w, H / h, 1)         kept as the fraction num/den
\*   width = w * scale, height = h * scale
\*   x = (W - width) / 2, y = (H - height) / 2
\* x, y, width and height are carried in units of 1/(2*den) px, which keeps
\* them integers.
insertRect(W, H, w, h) ==
    LET one == w <= W /\ h <= H
        byWidth == W * h <= H * w
        num == IF one THEN 1 ELSE IF byWidth THEN W ELSE H
        den == IF one THEN 1 ELSE IF byWidth THEN w ELSE h
    IN  [num |-> num, den |-> den,
         x |-> W * den - w * num, y |-> H * den - h * num,
         width |-> 2 * w * num, height |-> 2 * h * num]

\* ctx.drawImage(img, x, y, width, height) of an opaque one-colour raster: the
\* samples inside the destination rectangle r take the raster's colour.
DrawImageScaled(cv, ink, r) ==
    [p \in Pixels |->
        IF /\ r.x <= 2 * r.den * p[1] /\ 2 * r.den * p[1] < r.x + r.width
           /\ r.y <= 2 * r.den * p[2] /\ 2 * r.den * p[2] < r.y + r.height
        THEN ink ELSE cv[p]]

\* handleInsertImage(file), reached from the toolbar's file input
\* (handleFileSelect) and from a paste while editing (handlePaste): a file
\* that is not an image returns at once, an image is read and decoded.
handleInsertImage(file) ==
    /\ surface = "drawing"
    /\ isEditing
    /\ SpendCommand
    /\ IF isImageType(file.type)
       THEN /\ inserts' = Append(inserts, file)
            /\ track' = [NoTrack EXCEPT !.phase = "insert requested"]
       ELSE /\ UNCHANGED inserts
            /\ track' = [NoTrack EXCEPT !.phase = "insert rejected"]
    /\ UNCHANGED <<surface, isEditing, toolVars, themeVars, gestureVars, canvas, bgCanvas,
                   previewCanvas, historyVars, dataUrl, imgLoads, pdfVars>>
    /\ UNCHANGED <<drawingCtx, store>>

\* reader.onload followed by img.onload of handleInsertImage: the decoded
\* image is drawn on the main canvas and the canvas is pushed on the history.
insertOnload(i) ==
    /\ surface = "drawing"
    /\ i \in 1..Len(inserts)
    /\ LET img == inserts[i]
           r == insertRect(DEFAULT_CANVAS_WIDTH, DEFAULT_CANVAS_HEIGHT,
                           img.width, img.height)
           drawn == DrawImageScaled(canvas, img.ink, r)
           h == saveToHistory(historyRef, historyIndexRef, drawn)
       IN  /\ canvas' = drawn
           /\ historyRef' = h.history
           /\ historyIndexRef' = h.index
           /\ track' = [NoTrack EXCEPT !.phase = "inserted", !.n = i]
    /\ inserts' = SubSeq(inserts, 1, i - 1) \o SubSeq(inserts, i + 1, Len(inserts))
    /\ UNCHANGED <<surface, isEditing, toolVars, themeVars, gestureVars, bgCanvas,
                   previewCanvas, dataUrl, imgLoads, pdfVars, budgetVars>>
    /\ UNCHANGED <<drawingCtx, store>>

\* A new drawing cell in edit mode, its history seeded by the initialization.
InitInsert ==
    /\ surface = "drawing"
    /\ dataUrl = NoDataUrl
    /\ isDrawing = FALSE
    /\ isEditing = TRUE
    /\ tool = "pen"
    /\ color = "#000000"
    /\ brushSize = 3
    /\ fillShape = FALSE
    /\ background = "blank"
    /\ isDarkMode = FALSE
    /\ lastPoint = NullPoint
    /\ shapeStartPoint = NullPoint
    /\ bgCanvas = drawBackground(DEFAULT_CANVAS_WIDTH, DEFAULT_CANVAS_HEIGHT,
                                 "blank", FALSE)
    /\ previewCanvas = Blank
    /\ canvas = ScriptInk(surface, 0)
    /\ historyRef = ScriptHistory(surface, 0).history
    /\ historyIndexRef = ScriptHistory(surface, 0).index
    /\ imgLoads = <<>>
    /\ inserts = <<>>
    /\ drawingCtx = DefaultCtx
    /\ store = createInitialStore
    /\ NoPdf
    /\ nOps = MaxOps - InsertCommands
    /\ nSwitch = MaxSwitches
    /\ track = NoTrack

NextInsert ==
    \/ \E file \in Files : handleInsertImage(file)
    \/ \E i \in 1..Len(inserts) : insertOnload(i)
    \/ \E e \in PointerEvents : handlePointerDown(e)
    \/ \E e \in PointerEvents : handlePointerMove(e)
    \/ \E e \in PointerEvents : handlePointerUp(e)
    \/ undo
    \/ redo

SpecInsert == InitInsert /\ [][NextInsert]_vars

(***************************************************************************)
(* Cells in edit mode, with a budget of commands                           *)
(***************************************************************************)
\* A freshly mounted cell s in edit mode (a new drawing or mini drawing cell,
\* or the PDF cell showing the first page of its document), in a behaviour
\* that issues up to ops commands while idle and up to sw while a gesture is
\* active.
EditingCell(s, ops, sw) ==
    /\ surface = s
    /\ dataUrl = NoDataUrl
    /\ isDrawing = FALSE
    /\ isEditing = TRUE
    /\ tool = "pen"
    /\ color = IF s = "pdf" THEN "#ef4444" ELSE "#000000"
    /\ brushSize = IF s = "mini" THEN 2 ELSE 3
    /\ fillShape = FALSE
    /\ background = IF s = "pdf" THEN "lines" ELSE "blank"
    /\ isDarkMode = FALSE
    /\ lastPoint = IF s = "mini" THEN MiniNullPoint ELSE NullPoint
    /\ shapeStartPoint = IF s = "mini" THEN MiniNullPoint ELSE NullPoint
    /\ bgCanvas = CASE s = "pdf" -> PageImage(1)
                    [] s = "mini" -> Mini_drawBackground(CANVAS_WIDTH, canvasHeight, "blank")
                    [] OTHER -> drawBackground(DEFAULT_CANVAS_WIDTH, DEFAULT_CANVAS_HEIGHT,
                                               "blank", FALSE)
    /\ previewCanvas = Blank
    /\ canvas = IF s = "pdf" THEN Blank ELSE bgCanvas
    /\ historyRef = IF s = "mini" THEN <<>> ELSE <<canvas>>
    /\ historyIndexRef = Len(historyRef) - 1
    /\ imgLoads = <<>>
    /\ inserts = <<>>
    /\ drawingCtx = DefaultCtx
    /\ store = createInitialStore
    /\ IF s = "pdf"
       THEN /\ pages = InitPages
            /\ currentPageIndex = 0
            /\ pdfDoc = TRUE
            /\ requests = {}
            /\ renderTaskRef = 1
            /\ canvasSize = [width |-> 800, height |-> PageHeight(1)]
            /\ errors = 0
            /\ nReq = 1
       ELSE NoPdf
    /\ nOps = MaxOps - ops
    /\ nSwitch = MaxSwitches - sw
    /\ track = IF s = "mini" THEN NoTrack ELSE TrackStart(canvas)

Surfaces == {"drawing", "mini", "pdf"}

(***************************************************************************)
(* Freehand strokes under varying pressure and brush size                  *)
(***************************************************************************)
\* The values the brush-size sliders are moved to (their range is 1..20 in
\* the drawing and PDF cells, 1..10 in the mini cell).
BrushSizes == {1, 3, 10}

\* The pressures the input device reports, in hundredths.
Pressures == {0, 25, 50, 75, 100}

\* Pointer events of a pressure-sensitive device.
StrokeEvents ==
    { [clientX |-> x, clientY |-> x, pressure |-> p] : x \in {5, 15}, p \in Pressures }

\* A gesture on a freshly mounted cell in edit mode.
InitStroke == \E s \in Surfaces : EditingCell(s, 1, 1)

NextStroke ==
    \/ \E e \in StrokeEvents : handlePointerDown(e)
    \/ \E e \in StrokeEvents : handlePointerMove(e)
    \/ \E e \in StrokeEvents : handlePointerUp(e)
    \/ \E t \in {"pen", "eraser"} : setTool(t)
    \/ \E n \in BrushSizes : setBrushSize(n)
    \/ \E e \in StrokeEvents : Mini_handlePointerDown(e)
    \/ \E e \in StrokeEvents : Mini_handlePointerMove(e)
    \/ \E e \in StrokeEvents : Mini_handlePointerUp(e)
    \/ \E t \in {"pen", "eraser"} : Mini_setTool(t)
    \/ \E n \in BrushSizes : Mini_setBrushSize(n)
    \/ \E e \in StrokeEvents : PDF_handlePointerDown(e)
    \/ \E e \in StrokeEvents : PDF_handlePointerMove(e)
    \/ \E e \in StrokeEvents : PDF_handlePointerUp(e)
    \/ \E t \in PdfTools : PDF_setTool(t)
    \/ \E n \in BrushSizes : PDF_setBrushSize(n)

SpecStroke == InitStroke /\ [][NextStroke]_vars

(***************************************************************************)
(* Erasing ink over the background                                         *)
(***************************************************************************)
\* Commands of an erasing session: a background change, a pen gesture and an
\* eraser gesture.
EraseCommands == 3

InitErase == \E s \in Surfaces : EditingCell(s, EraseCommands, 0)

NextErase ==
    \/ \E e \in PointerEvents : handlePointerDown(e)
    \/ \E e \in PointerEvents : handlePointerMove(e)
    \/ \E e \in PointerEvents : handlePointerUp(e)
    \/ \E t \in {"pen", "eraser"} : setTool(t)
    \/ \E b \in BackgroundTypes : setBackground(b)
    \/ \E e \in PointerEvents : Mini_handlePointerDown(e)
    \/ \E e \in PointerEvents : Mini_handlePointerMove(e)
    \/ \E e \in PointerEvents : Mini_handlePointerUp(e)
    \/ \E t \in {"pen", "eraser"} : Mini_setTool(t)
    \/ \E e \in PointerEvents : PDF_handlePointerDown(e)
    \/ \E e \in PointerEvents : PDF_handlePointerMove(e)
    \/ \E e \in PointerEvents : PDF_handlePointerUp(e)
    \/ \E t \in {"pen", "eraser"} : PDF_setTool(t)

SpecErase == InitErase /\ [][NextErase]_vars

(***************************************************************************)
(* Resizing the mini drawing cell                                          *)
(***************************************************************************)
\* Commands of a resizing session: gestures, saves and resize drags.
ResizeCommands == 3

\* How far below its start the resize drag moves the pointer.
ResizeDeltas == {-100, 50, 500}

InitResize == EditingCell("mini", ResizeCommands, 0)

NextResize ==
    \/ \E e \in PointerEvents : Mini_handlePointerDown(e)
    \/ \E e \in PointerEvents : Mini_handlePointerMove(e)
    \/ \E e \in PointerEvents : Mini_handlePointerUp(e)
    \/ \E d \in ResizeDeltas : Mini_handleMouseMove(d)
    \/ Mini_handleSave
    \/ \E b \in BOOLEAN : Mini_setIsEditing(b)
    \/ \E i \in 1..Len(imgLoads) : Mini_imgOnload(i)

SpecResize == InitResize /\ [][NextResize]_vars

(***************************************************************************)
(* Regenerating the base layer                                             *)
(***************************************************************************)
\* Commands of a session that changes background type, theme and size.
BackgroundCommands == 3

InitBackground == \E s \in {"drawing", "mini"} : EditingCell(s, BackgroundCommands, 0)

NextBackground ==
    \/ \E b \in BackgroundTypes : setBackground(b)
    \/ \E d \in BOOLEAN : checkDarkMode(d)
    \/ handleClear
    \/ \E b \in BackgroundTypes : Mini_setBackground(b)
    \/ \E d \in ResizeDeltas : Mini_handleMouseMove(d)
    \/ Mini_handleClear

SpecBackground == InitBackground /\ [][NextBackground]_vars

(***************************************************************************)
(* Switching pages while overlay images are loading                        *)
(***************************************************************************)
\* Page switches of a session in the PDF cell.
PageSwitches == 3

InitPageSwitch == EditingCell("pdf", PageSwitches, 0)

NextPageSwitch ==
    \/ \E i \in 0..(Len(pages) - 1) : setCurrentPageIndex(i)
    \/ \E r \in requests : getPageResolve(r)
    \/ \E r \in requests : renderResolve(r)
    \/ \E r \in requests : renderRejectCancelled(r)
    \/ \E i \in 1..Len(imgLoads) : PDF_imgOnload(i)
    \/ PDF_undo
    \/ PDF_redo

SpecPageSwitch == InitPageSwitch /\ [][NextPageSwitch]_vars

(***************************************************************************)
(* Adding, deleting and visiting pages of a PDF cell                       *)
(***************************************************************************)
\* Page commands (add, delete, previous, next) of a session in the PDF cell.
PageCommands == 3

InitPageEdit == EditingCell("pdf", PageCommands, 0)

NextPages ==
    \/ \E i \in 0..(Len(pages) - 1) : setCurrentPageIndex(i)
    \/ \E type \in BackgroundTypes : addPageAfterCurrent(type)
    \/ deletePage
    \/ \E r \in requests : getPageResolve(r)
    \/ \E r \in requests : renderResolve(r)
    \/ \E r \in requests : renderRejectCancelled(r)
    \/ \E i \in 1..Len(imgLoads) : PDF_imgOnload(i)

SpecPages == InitPageEdit /\ [][NextPages]_vars

(***************************************************************************)
(* Pen, highlighter and eraser strokes on the PDF overlay                  *)
(***************************************************************************)
\* Gestures of an annotation session on the PDF overlay.
InkGestures == 2

InitInk == EditingCell("pdf", InkGestures, 1)

NextInk ==
    \/ \E e \in PointerEvents : PDF_handlePointerDown(e)
    \/ \E e \in PointerEvents : PDF_handlePointerMove(e)
    \/ \E e \in PointerEvents : PDF_handlePointerUp(e)
    \/ \E t \in PdfTools : PDF_setTool(t)

SpecInk == InitInk /\ [][NextInk]_vars

(***************************************************************************)
(* Operations on the project store                                         *)
(***************************************************************************)
\* The hook after the store was created; no cell component takes part.
InitStore == EditingCell("useProjects", 0, 0)

NextStore ==
    \/ \E parentId \in {0} \cup ProjectIds(store) : addProject(parentId)
    \/ \E id \in ProjectIds(store), newParentId \in {0} \cup ProjectIds(store) :
          moveProject(id, newParentId)
    \/ \E id \in ProjectIds(store) : deleteProject(id)
    \/ \E projectId \in {0} \cup ProjectIds(store) : addNotebook(projectId)
    \/ \E id \in NotebookIds(store) : selectNotebook(id)
    \/ \E id \in NotebookIds(store) : deleteNotebook(id)
    \/ \E type \in CellTypes, afterId \in 0..store.uuids : addCell(type, afterId)

SpecStore == InitStore /\ [][NextStore]_vars
(***************************************************************************)
(* Properties of the gesture, history and page-render behaviour            *)
(***************************************************************************)
PointerDownStep ==
    \E e \in PointerEvents :
        handlePointerDown(e) \/ Mini_handlePointerDown(e) \/ PDF_handlePointerDown(e)
PointerMoveStep ==
    \E e \in PointerEvents :
        handlePointerMove(e) \/ Mini_handlePointerMove(e) \/ PDF_handlePointerMove(e)
PointerUpStep ==
    \E e \in PointerEvents :
        \/ onPointerUp(e) \/ Mini_onPointerUp(e) \/ PDF_onPointerUp(e)
        \/ onPointerLeave(e) \/ Mini_onPointerLeave(e) \/ PDF_onPointerLeave(e)

\* C1: on a freshly initialized surface, after N completed gestures, N undos
\* bring the ink layer back to its pixels before the first gesture, and N
\* redos after them bring it to its pixels after the last gesture.
C1_UndoRedoRoundTrip ==
    /\ (track.phase = "undos" /\ track.k = track.n) => canvas = track.ink0
    /\ (track.phase = "redos" /\ track.k = track.n) => canvas = track.inkN

\* A round trip was completed over three gestures that changed the ink.
C1_RoundTripDone ==
    /\ track.phase = "redos"
    /\ track.k = track.n
    /\ track.n = 3
    /\ track.ink0 # track.inkN
    /\ canvas = track.inkN

\* C2: every completed gesture (a step that ends an active gesture) pushes
\* exactly one history entry, the ink at the end of the gesture, on every
\* drawing surface; pointer-moves and pointer-ups outside a gesture push none.
C2_OneEntryPerGesture ==
    [][ /\ (PointerMoveStep \/ PointerDownStep) => UNCHANGED historyVars
        /\ (PointerUpStep /\ ~isDrawing) => UNCHANGED historyVars
        /\ (PointerUpStep /\ isDrawing) =>
              /\ ~isDrawing'
              /\ historyIndexRef' = historyIndexRef + 1
              /\ Len(historyRef') = historyIndexRef' + 1
              /\ historyRef'[Len(historyRef')] = canvas' ]_vars

\* C3: the history never holds more than 50 entries and the cursor never
\* exceeds 49, so at most 49 undos take effect; a push onto a full history
\* whose cursor is at the last entry drops the oldest entry, keeps the others
\* in order, appends the new ink and leaves the cursor on it.
C3_HistoryCapped ==
    /\ [](Len(historyRef) <= 50 /\ historyIndexRef <= 49)
    /\ [][ (Len(historyRef) = 50 /\ historyIndexRef = 49 /\ historyRef' # historyRef)
              => /\ Len(historyRef') = 50
                 /\ historyIndexRef' = 49
                 /\ SubSeq(historyRef', 1, 49) = Tail(historyRef)
                 /\ historyRef'[50] = canvas' ]_vars

\* A push onto the full history has dropped the initial entry.
C3_OldestEvicted ==
    /\ nOps = 1
    /\ ~isDrawing
    /\ Len(historyRef) = 50
    /\ historyIndexRef = 49
    /\ historyRef[1] = ScriptInk(surface, 1)
    /\ historyRef[1] # ScriptInk(surface, 0)

\* C4: while the history is non-empty the cursor is within it, and it is -1
\* exactly while the history is empty.
C4_CursorInRange ==
    /\ historyRef # <<>> => (0 <= historyIndexRef /\ historyIndexRef < Len(historyRef))
    /\ historyRef = <<>> => historyIndexRef = -1

\* The drawing cell after pushes, an undo and a re-initialization from a
\* saved image, with the cursor inside a history of several entries.
C4_CursorMoved ==
    /\ surface = "drawing"
    /\ Len(historyRef) >= 2
    /\ historyIndexRef < Len(historyRef) - 1

\* C5: undo() at cursor 0 and redo() at the last entry change neither the ink
\* layer, nor the history, nor the cursor.
C5_BoundaryNoOps ==
    [][ /\ ((undo \/ PDF_undo) /\ historyIndexRef = 0) =>
              UNCHANGED <<canvas, historyRef, historyIndexRef>>
        /\ ((redo \/ PDF_redo) /\ historyIndexRef = Len(historyRef) - 1) =>
              UNCHANGED <<canvas, historyRef, historyIndexRef>> ]_vars

\* undo() was called at cursor 0 of a history holding several entries.
C5_UndoneAtZero ==
    /\ track.phase = "undo at 0"
    /\ Len(historyRef) >= 2
    /\ historyIndexRef = 0

\* C6: every change of the history is a push that keeps the entries up to the
\* cursor (less the oldest when that makes 51), drops those after it, appends
\* the ink and leaves the cursor on the new, last entry, so that a redo()
\* after it finds nothing to restore.
C6_PushTruncates ==
    [][ historyRef' # historyRef =>
            LET kept == SubSeq(historyRef, 1, historyIndexRef + 1)
            IN  /\ historyIndexRef' = Len(historyRef') - 1
                /\ historyRef'[Len(historyRef')] = canvas'
                /\ SubSeq(historyRef', 1, Len(historyRef') - 1)
                       = IF Len(kept) = 50 THEN Tail(kept) ELSE kept ]_vars

\* A gesture completed after at least two undos: the undone entries are gone
\* and the cursor is on the last entry.
C6_FutureDiscarded ==
    /\ nOps = 1
    /\ ~isDrawing
    /\ Len(historyRef) <= 48
    /\ historyIndexRef = Len(historyRef) - 1

\* C7: once no render request is outstanding and none has failed, the base
\* layer and the canvas dimensions are those of the current page.
C7_LatestPageWins ==
    (surface = "pdf" /\ pdfDoc /\ requests = {} /\ errors = 0 /\ ~currentPage.isCustomPage)
        => /\ bgCanvas = PageImage(currentPage.pageNumber)
           /\ canvasSize = getViewport(currentPage.pageNumber, canvasSize)

\* C8: a step of a render request that a later request has superseded changes
\* neither the base layer, nor the ink layer, nor the history, and reports no
\* error.
C8_SupersededIgnored ==
    [][ \A r \in requests :
            (/\ r.id < nReq
             /\ \/ getPageResolve(r) \/ renderResolve(r)
                \/ renderReject(r) \/ renderRejectCancelled(r))
            => UNCHANGED <<bgCanvas, canvas, historyRef, historyIndexRef, errors>> ]_vars

\* C9: in view mode a pointer-down, -move, -up or -leave changes neither the
\* ink layer, nor the preview layer, nor the history, nor the gesture state.
C9_ViewModePointerNoOps ==
    [][ (~isEditing /\ (PointerDownStep \/ PointerMoveStep \/ PointerUpStep))
            => UNCHANGED <<canvas, previewCanvas, historyRef, historyIndexRef,
                           isDrawing, lastPoint, shapeStartPoint>> ]_vars

C11_ShapeCommit ==
    [][ \A e \in PointerEvents :
          /\ (/\ surface = "drawing"
              /\ isDrawing /\ isShapeTool(tool) /\ shapeStartPoint # NullPoint
              /\ (onPointerUp(e) \/ onPointerLeave(e)))
             => /\ canvas' = drawShape(canvas, shapeStartPoint, getCanvasPoint(e),
                                       tool, FALSE, brushSize, color, fillShape)
                /\ previewCanvas' = Blank
                /\ Len(historyRef') = historyIndexRef + 2
                /\ historyIndexRef' = historyIndexRef + 1
                /\ historyRef'[Len(historyRef')] = canvas'
                /\ ~isDrawing' /\ shapeStartPoint' = NullPoint
          /\ (/\ surface = "mini"
              /\ isDrawing /\ isShapeTool(tool) /\ shapeStartPoint # MiniNullPoint
              /\ (Mini_onPointerUp(e) \/ Mini_onPointerLeave(e)))
             => /\ canvas' = Mini_drawShape(canvas, shapeStartPoint,
                                            Mini_getCanvasPoint(e), tool, FALSE,
                                            brushSize, color, fillShape)
                /\ previewCanvas' = Blank
                /\ Len(historyRef') = historyIndexRef + 2
                /\ historyIndexRef' = historyIndexRef + 1
                /\ historyRef'[Len(historyRef')] = canvas'
                /\ ~isDrawing' /\ shapeStartPoint' = MiniNullPoint ]_vars

\* C12: when the load of a saved image completes (the saved drawing of a
\* drawing cell, or the saved overlay of a PDF page), the history holds exactly
\* one entry, the ink as decoded, with the cursor on it.
C12_SeededWithOneEntry ==
    [][ (\E i \in 1..Len(imgLoads) : imgOnload(i) \/ PDF_imgOnload(i))
            => /\ historyRef' = <<canvas'>>
               /\ historyIndexRef' = 0 ]_vars

\* C13: a change of the background type, a change of the theme, and the steps
\* of a page re-render change the base layer only: the ink layer and the
\* history are as they were.
C13_BaseChangesKeepInk ==
    [][ (\/ \E b \in BackgroundTypes : setBackground(b)
         \/ \E d \in BOOLEAN : checkDarkMode(d)
         \/ \E r \in requests : getPageResolve(r) \/ renderResolve(r))
            => UNCHANGED <<canvas, historyRef, historyIndexRef>> ]_vars

\* C14: no pixel of the ink layer holds base-layer content: each is either
\* transparent or differs from the base layer's pixel under it.
C14_InkHoldsNoBackground ==
    \A p \in Pixels : canvas[p] = Transparent \/ canvas[p] # bgCanvas[p]

C16_SaveWritesCurrentInk ==
    [][ /\ handleSave => dataUrl' = [mime |-> "image/png", pixels |-> canvas]
        /\ handleSaveDrawing =>
              /\ Len(pages') = Len(pages)
              /\ \A i \in 1..Len(pages) :
                    IF i # currentPageIndex + 1
                    THEN pages'[i] = pages[i]
                    ELSE /\ pages'[i].pageNumber = pages[i].pageNumber
                         /\ pages'[i].isCustomPage = pages[i].isCustomPage
                         /\ IF pages[i].isCustomPage
                            THEN /\ pages'[i].customDrawingDataUrl =
                                        [mime |-> "image/png", pixels |-> canvas]
                                 /\ pages'[i].drawingDataUrl = pages[i].drawingDataUrl
                            ELSE /\ pages'[i].drawingDataUrl =
                                        [mime |-> "image/png", pixels |-> canvas]
                                 /\ pages'[i].customDrawingDataUrl =
                                        pages[i].customDrawingDataUrl ]_vars

\* The custom page was saved with ink on it, and the PDF page's record is as
\* it was.
C16_CustomPageSaved ==
    /\ surface = "pdf"
    /\ pages[2].customDrawingDataUrl.mime = "image/png"
    /\ pages[2].customDrawingDataUrl.pixels # Blank
    /\ pages[2].drawingDataUrl = NoDataUrl
    /\ pages[1] = SavePages[1]

\* C17: a clear resets the ink layer (to transparent in the PDF overlay, to
\* the background in the drawing cells) and pushes exactly one history entry
\* holding the cleared ink, on every drawing surface; when the ink it cleared
\* was the current history entry, that entry is the one an undo restores.
C17_ClearPushesOneEntry ==
    [][ LET Pushed == /\ historyIndexRef' = historyIndexRef + 1
                      /\ Len(historyRef') = historyIndexRef' + 1
                      /\ historyRef'[Len(historyRef')] = canvas'
                      /\ (/\ ~isDrawing
                          /\ historyIndexRef >= 0
                          /\ canvas = historyRef[historyIndexRef + 1])
                            => historyRef'[historyIndexRef'] = canvas
        IN  /\ handleClear =>
                  /\ canvas' = drawBackground(DEFAULT_CANVAS_WIDTH, DEFAULT_CANVAS_HEIGHT,
                                              background, isDarkMode)
                  /\ Pushed
            /\ handleClearDrawing => (canvas' = Blank /\ Pushed)
            /\ Mini_handleClear =>
                  /\ canvas' = Mini_drawBackground(CANVAS_WIDTH, canvasSize.height, background)
                  /\ Pushed ]_vars

\* C18: when the render of the latest requested page fails with a genuine
\* error, the error is reported, the base layer is blank, and the ink layer and
\* the history are initialized for that page: its saved overlay is being
\* loaded, or the ink is transparent and is the current history entry.
C18_RenderErrorFallsBack ==
    [][ \A r \in requests :
            (r.id = nReq /\ renderReject(r))
            => /\ errors' = errors + 1
               /\ bgCanvas' = Blank
               /\ IF r.page.drawingDataUrl.mime # ""
                  THEN imgLoads' = Append(imgLoads, r.page.drawingDataUrl)
                  ELSE /\ canvas' = Blank
                       /\ historyRef' # <<>>
                       /\ historyRef'[historyIndexRef' + 1] = canvas' ]_vars

\* C19: when a saved image fails to decode, the error is reported and the
\* surface is initialized as a blank one: the ink layer is blank (the
\* background in the drawing cell, transparent in the PDF overlay) and is the
\* current history entry.
C19_DecodeErrorFallsBack ==
    [][ (\E i \in 1..Len(imgLoads) : imgOnerror(i) \/ PDF_imgOnerror(i))
            => /\ errors' = errors + 1
               /\ canvas' = IF surface = "pdf" THEN Blank
                            ELSE drawBackground(DEFAULT_CANVAS_WIDTH, DEFAULT_CANVAS_HEIGHT,
                                                background, isDarkMode)
               /\ historyRef' # <<>>
               /\ historyRef'[historyIndexRef' + 1] = canvas' ]_vars


\* C20: insertImage draws the supplied image onto the ink layer centered and
\* with its aspect ratio preserved, at scale min(surfaceWidth/imageWidth,
\* surfaceHeight/imageHeight, 1), so the drawn rectangle lies entirely inside
\* the surface and the image is never enlarged, and then pushes exactly one
\* history entry; a file that is not an image changes nothing.
C20_InsertImage ==
    [][ /\ track'.phase = "inserted" /\ Len(inserts') < Len(inserts) =>
            LET img == inserts[track'.n]
                W == DEFAULT_CANVAS_WIDTH
                H == DEFAULT_CANVAS_HEIGHT
                r == insertRect(W, H, img.width, img.height)
                u == 2 * r.den
            IN  \* the scale is the least of W/w, H/h and 1
                /\ r.den > 0 /\ r.num > 0
                /\ r.num * img.width <= W * r.den
                /\ r.num * img.height <= H * r.den
                /\ r.num <= r.den
                /\ \/ r.num * img.width = W * r.den
                   \/ r.num * img.height = H * r.den
                   \/ r.num = r.den
                \* the size is the image's size times the scale (in units of 1/u px)
                /\ r.width = 2 * img.width * r.num
                /\ r.height = 2 * img.height * r.num
                \* aspect ratio preserved, never enlarged
                /\ r.width * img.height = r.height * img.width
                /\ r.width <= u * img.width /\ r.height <= u * img.height
                \* centered and inside the surface
                /\ 2 * r.x + r.width = u * W
                /\ 2 * r.y + r.height = u * H
                /\ r.x >= 0 /\ r.y >= 0
                /\ r.x + r.width <= u * W /\ r.y + r.height <= u * H
                \* drawn on the ink layer, then one entry pushed
                /\ canvas' = DrawImageScaled(canvas, img.ink, r)
                /\ historyRef' = Append(SubSeq(historyRef, 1, historyIndexRef + 1), canvas')
                /\ historyIndexRef' = Len(historyRef') - 1
                /\ bgCanvas' = bgCanvas
        /\ track'.phase = "insert rejected" /\ nOps' > nOps =>
            UNCHANGED <<surface, isEditing, toolVars, themeVars, gestureVars, canvas,
                        bgCanvas, previewCanvas, historyVars, cellVars, pdfVars>> ]_vars

\* An image larger than the surface has been inserted: it was drawn reduced
\* over the whole window and its entry follows the initial one.
C20_ReducedImageInserted ==
    /\ track.phase = "inserted"
    /\ \A p \in Pixels : canvas[p] = "#a1"
    /\ Len(historyRef) = 2
    /\ historyRef[2] = canvas
    /\ historyIndexRef = 1

\* Width of the pen segment between two events of reported pressures p1 and
\* p2 on the surface of this instance, in eighths of a px.
StrokeWidth(t, e1, e2) ==
    CASE surface = "drawing" -> lineSize(t, brushSize, getCanvasPoint(e1), getCanvasPoint(e2))
      [] surface = "pdf" -> PDF_lineSize(t, brushSize, PDF_getCanvasPoint(e1),
                                         PDF_getCanvasPoint(e2))
      [] OTHER -> Mini_lineSize(t, brushSize)

\* C21: for any fixed baseWidth, the freehand pen stroke width is monotonically
\* non-decreasing in the pressure reported by the input device: for all
\* reported pressures p1 <= p2 in [0,1] (applied to both segment endpoints),
\* width(p1) <= width(p2).
C21_PenWidthMonotone ==
    \A e1, e2 \in StrokeEvents :
        e1.pressure <= e2.pressure =>
            StrokeWidth("pen", e1, e1) <= StrokeWidth("pen", e2, e2)

\* C22: for equal baseWidth and every pressure in [0,1], the eraser's stroke
\* width is greater than or equal to the pen's stroke width, on each of the
\* three drawing surfaces.
C22_EraserAtLeastPen ==
    \A e1, e2 \in StrokeEvents :
        StrokeWidth("eraser", e1, e2) >= StrokeWidth("pen", e1, e2)

\* An eraser segment has been stroked with the widest brush at full pressure.
C22_ErasedAtFullPressure ==
    /\ tool = "eraser"
    /\ isDrawing
    /\ brushSize = 10
    /\ surface \in {"drawing", "pdf"} => lastPoint.pressure = 100
    /\ \E p \in Pixels : canvas[p] = (IF surface = "pdf" THEN Transparent ELSE "#ffffff")
    /\ nSwitch = 0

\* What the stacked canvases display: the ink canvas over the base canvas.
Composite(ink, base) == [p \in Pixels |-> IF ink[p] = Transparent THEN base[p] ELSE ink[p]]

\* C23: after erasing over inked pixels, the displayed composite at those
\* pixels equals the base layer alone: on a surface with a generated
\* background the background pattern (grid, lines or dots) is revealed there,
\* and on an overlay atop an externally supplied page the ink becomes
\* transparent so the page shows through.
C23_EraserRevealsBase ==
    [][ tool = "eraser" /\ isDrawing /\ isDrawing' /\ canvas' # canvas =>
            \A p \in Pixels :
                canvas[p] = color /\ canvas'[p] # canvas[p] =>
                    Composite(canvas', bgCanvas')[p] = bgCanvas[p] ]_vars

\* The outline of a shape from start to end, and the interior a filled rect
\* or ellipse adds to it.
ShapeOutline(start, end, shapeType, size, headLength) ==
    shapeRegion(start, end, shapeType, size, FALSE, FALSE, headLength)
ShapeInterior(start, end, shapeType) ==
    CASE shapeType = "rect" -> FillRect(start.x, start.y, end.x - start.x, end.y - start.y)
      [] shapeType = "circle" -> FillEllipse(start.x + end.x, start.y + end.y,
                                             Abs(end.x - start.x), Abs(end.y - start.y))
      [] OTHER -> {}

\* The preview layer and the ink layer a shape gesture from start must give
\* for the pointer position end: the outline alone on a cleared preview
\* layer, the outline and (when filled) the interior on the ink.
ShapePasses(start, end, headLength) ==
    LET outline == ShapeOutline(start, end, tool, brushSize, headLength)
        interior == IF fillShape THEN ShapeInterior(start, end, tool) ELSE {}
    IN  [preview |-> Paint(Blank, outline, color),
         final |-> Paint(canvas, outline \cup interior, color)]

\* C24: the preview pass and the final pass of a shape use the same geometry
\* function and differ only in the target layer and in fill: for every shape
\* kind and every value of the filled flag the preview is outline-only, while
\* the committed rect or ellipse is filled (fill before stroke, same color)
\* exactly when the filled flag is set.
C24_PreviewIsOutlineOfFinal ==
    [][ \A e \in PointerEvents :
          /\ (/\ surface = "drawing" /\ isEditing
              /\ isDrawing /\ isShapeTool(tool) /\ shapeStartPoint # NullPoint)
             => LET passes == ShapePasses(shapeStartPoint, getCanvasPoint(e),
                                          Max(10, brushSize * 4))
                IN  /\ handlePointerMove(e) =>
                        previewCanvas' = passes.preview /\ canvas' = canvas
                    /\ handlePointerUp(e) =>
                        canvas' = passes.final /\ previewCanvas' = Blank
          /\ (/\ surface = "mini" /\ isEditing
              /\ isDrawing /\ isShapeTool(tool) /\ shapeStartPoint # MiniNullPoint)
             => LET passes == ShapePasses(shapeStartPoint, Mini_getCanvasPoint(e),
                                          Max(8, brushSize * 3))
                IN  /\ Mini_handlePointerMove(e) =>
                        previewCanvas' = passes.preview /\ canvas' = canvas
                    /\ Mini_handlePointerUp(e) =>
                        canvas' = passes.final /\ previewCanvas' = Blank ]_vars

\* A filled ellipse has been committed: the sample at its centre, which its
\* outline does not reach, is inked, the corner sample outside it is not, and
\* the preview layer is clear.
C24_FilledShapeCommitted ==
    /\ tool = "circle"
    /\ fillShape
    /\ ~isDrawing
    /\ canvas[<<20, 20>>] = color
    /\ canvas[<<10, 10>>] # color
    /\ previewCanvas = Blank

\* C25: the rect and ellipse renderers are symmetric in their two points: for
\* all points A and B, rendering with (start=A, end=B) and with (start=B,
\* end=A) produces the same final filled/stroked region, including when width
\* or height is negative.
C25_RectEllipseSymmetric ==
    [][ \A e \in PointerEvents :
          /\ (/\ surface = "drawing" /\ isDrawing /\ tool \in {"rect", "circle"}
              /\ shapeStartPoint # NullPoint /\ handlePointerUp(e))
             => canvas' = drawShape(canvas, getCanvasPoint(e), shapeStartPoint, tool,
                                    FALSE, brushSize, color, fillShape)
          /\ (/\ surface = "mini" /\ isDrawing /\ tool \in {"rect", "circle"}
              /\ shapeStartPoint # MiniNullPoint /\ Mini_handlePointerUp(e))
             => canvas' = Mini_drawShape(canvas, Mini_getCanvasPoint(e), shapeStartPoint,
                                         tool, FALSE, brushSize, color, fillShape)
      ]_vars

\* A rect is being dragged up and to the left (negative width and height)
\* and has been rendered: its outline reaches the corner opposite the start.
C25_BackwardRectRendered ==
    /\ tool = "rect"
    /\ isDrawing
    /\ surface \in {"drawing", "mini"}
    /\ shapeStartPoint.x = 30 /\ shapeStartPoint.y = 30
    /\ previewCanvas[<<10, 10>>] = color
    /\ previewCanvas[<<20, 20>>] = Transparent

\* What a pointer-down must do to the gesture state, by the state it arrives
\* in: start a gesture at point when editable and idle, leave the recorded
\* points alone when a gesture is active, start nothing when not editable.
PointerDownContract(point) ==
    CASE isEditing /\ ~isDrawing ->
            /\ isDrawing'
            /\ lastPoint' = point
            /\ isShapeTool(tool) => shapeStartPoint' = point
            /\ ~isShapeTool(tool) => shapeStartPoint' = shapeStartPoint
      [] isDrawing ->
            /\ isDrawing'
            /\ lastPoint' = lastPoint
            /\ shapeStartPoint' = shapeStartPoint
      [] OTHER ->
            ~isDrawing' /\ lastPoint' = lastPoint /\ shapeStartPoint' = shapeStartPoint

\* C26: a pointer-down starts a gesture only when the surface is editable and
\* Idle: it records the start point and enters ActiveFreehand for
\* pen/eraser/highlighter or ActiveShape for line/rect/ellipse/arrow; a
\* pointer-down arriving while a gesture is already active does not replace
\* that gesture's recorded start or last point.
C26_PointerDownStartsWhenIdle ==
    [][ \A e \in PointerEvents :
          /\ handlePointerDown(e) => PointerDownContract(getCanvasPoint(e))
          /\ Mini_handlePointerDown(e) =>
                PointerDownContract(Mini_getCanvasPoint(e))
          /\ PDF_handlePointerDown(e) =>
                PointerDownContract(PDF_getCanvasPoint(e)) ]_vars

\* C27: a pointer-move, pointer-up or pointer-leave that has no matching
\* pointer-down (the state machine is Idle) is ignored: ink layer, preview
\* layer, history and cursor are unchanged.
C27_UnmatchedPointerEventIgnored ==
    [][ \A e \in PointerEvents :
          (/\ ~isDrawing
           /\ \/ handlePointerMove(e) \/ onPointerUp(e) \/ onPointerLeave(e)
              \/ Mini_handlePointerMove(e) \/ Mini_onPointerUp(e) \/ Mini_onPointerLeave(e)
              \/ PDF_handlePointerMove(e) \/ PDF_onPointerUp(e) \/ PDF_onPointerLeave(e))
          => UNCHANGED <<canvas, previewCanvas, historyRef, historyIndexRef, gestureVars>>
      ]_vars

\* An idle, editable surface after a completed pen gesture: its ink and its
\* history are what a stray pointer-leave must not touch.
C27_IdleAfterGesture ==
    /\ ~isDrawing
    /\ isEditing
    /\ lastPoint \in {NullPoint, MiniNullPoint}
    /\ \E p \in Pixels : canvas[p] = color
    /\ previewCanvas = Blank
    /\ surface \in {"drawing", "pdf"} => Len(historyRef) = 2 /\ historyIndexRef = 1

\* C28: a resize of the surface (the mini drawing cell's height drag) does not
\* silently corrupt or discard the ink layer: ink drawn since the last save is
\* still present, within the new bounds, after the resize.
C28_ResizeKeepsInk ==
    [][ surface = "mini" /\ canvasSize'.height # canvasSize.height =>
            \A p \in Pixels :
                (canvas[p] = color /\ p[1] < canvasSize'.width /\ p[2] < canvasSize'.height)
                    => canvas'[p] = canvas[p] ]_vars

\* C29: the background pattern generator is deterministic and idempotent: for
\* identical width, height, type and theme it always produces a
\* pixel-identical raster, and regenerating the base layer any number of times
\* (on theme or size changes and back) yields the same raster as generating it
\* once.
C29_BaseLayerAsGeneratedOnce ==
    /\ surface = "drawing" =>
          bgCanvas = drawBackground(DEFAULT_CANVAS_WIDTH, DEFAULT_CANVAS_HEIGHT,
                                    background, isDarkMode)
    /\ surface = "mini" =>
          bgCanvas = Mini_drawBackground(CANVAS_WIDTH, canvasSize.height, background)

\* The base layer has been regenerated for another type, theme or size and
\* then again for the original one.
C29_RegeneratedAndBack ==
    /\ background = "blank"
    /\ ~isDarkMode
    /\ nOps = MaxOps - BackgroundCommands + 2
    /\ surface = "mini" => canvasSize.height = canvasHeight
    /\ bgCanvas = [p \in Pixels |-> "#ffffff"]

\* The saved ink of the page now displayed.
SavedInk(page) ==
    IF page.isCustomPage THEN page.customDrawingDataUrl ELSE page.drawingDataUrl

\* C30: after a page switch in the PDF overlay, the ink layer shows only the
\* saved ink of the page now displayed: an overlay image load started for the
\* previously displayed page that completes after the switch never draws that
\* page's ink onto the current page's ink layer nor pushes it into the
\* history.  Every overlay load that completes and draws puts the saved ink of
\* the current page, and nothing else, on the ink layer and into the history.
C30_LoadedInkIsCurrentPage ==
    [][(surface = "pdf" /\ Len(imgLoads') < Len(imgLoads) /\ historyRef' # historyRef)
          => /\ SavedInk(currentPage).mime # ""
             /\ canvas' = SavedInk(currentPage).pixels
             /\ historyRef'[historyIndexRef' + 1] = SavedInk(currentPage).pixels]_vars

\* C31: in the PDF overlay, undo() and redo() on the displayed page never
\* restore into the ink layer a snapshot that was captured while a different
\* page was displayed; the history is not carried across page switches.  In a
\* session of page switches without drawing, the only snapshot captured on a
\* page is its saved ink, so every undo or redo that changes the ink layer of
\* a fully rendered page must leave that page's saved ink on it.
C31_UndoRedoStayOnPage ==
    [][(/\ surface = "pdf"
        /\ requests = {} /\ imgLoads = <<>>
        /\ historyRef' = historyRef
        /\ historyIndexRef' # historyIndexRef)
          => canvas' = SavedInk(currentPage).pixels]_vars

\* C32: whenever the input state machine is Idle the preview layer is empty
\* and no shape start point is retained, after any sequence of pointer events
\* interleaved with tool changes (including a change between a shape tool and
\* a freehand tool while a gesture is active).
C32_IdleHoldsNoPreview ==
    (surface \in {"drawing", "mini"} /\ ~isDrawing)
        => /\ previewCanvas = Blank
           /\ shapeStartPoint = IF surface = "mini" THEN MiniNullPoint ELSE NullPoint

\* C33: each custom page added to a PDF cell is displayed with the background
\* type (blank, grid, lines or dots) chosen when that page was added, whatever
\* pages are added or visited afterwards.  Every step that brings a custom
\* page onto the display paints the base layer with the type that page was
\* added with.
C33_CustomPageKeepsItsBackground ==
    [][(/\ surface = "pdf"
        /\ <<pages, currentPageIndex>>' # <<pages, currentPageIndex>>
        /\ pages'[currentPageIndex' + 1].isCustomPage)
          => bgCanvas' = drawBackground(canvasSize'.width, canvasSize'.height,
                                        pages'[currentPageIndex' + 1].chosen, isDarkMode')]_vars

\* C34: in a PDF cell with at least one page, after any sequence of
\* previous/next navigation, addPageAfterCurrent and deletePage,
\* 0 <= currentPageIndex < pages.length holds; deletePage never removes the
\* last remaining page, and addPageAfterCurrent inserts the new page
\* immediately after the current one and makes it the current page.
C34_PageIndexInRange ==
    [][surface = "pdf" =>
          /\ 0 <= currentPageIndex /\ currentPageIndex < Len(pages)
          /\ 0 <= currentPageIndex' /\ currentPageIndex' < Len(pages')
          /\ Len(pages') < Len(pages) =>
                /\ Len(pages) > 1
                /\ Len(pages') = Len(pages) - 1
          /\ Len(pages') > Len(pages) =>
                /\ Len(pages') = Len(pages) + 1
                /\ currentPageIndex' = currentPageIndex + 1
                /\ pages'[currentPageIndex' + 1].isCustomPage
                /\ \A i \in 1..Len(pages) :
                      pages[i] = pages'[IF i <= currentPageIndex + 1 THEN i ELSE i + 1]]_vars

\* A grid page was added after the last page and deleted again: the index fell
\* back onto the last remaining page, whose render is still pending under the
\* deleted page's base layer.
C34_AddedAtEndAndDeleted ==
    /\ surface = "pdf"
    /\ nOps = MaxOps - PageCommands + 3
    /\ pages = InitPages
    /\ currentPageIndex = Len(pages) - 1
    /\ requests # {}
    /\ bgCanvas = drawBackground(canvasSize.width, canvasSize.height, "grid", FALSE)

\* C35: in the PDF overlay, after every freehand segment, whatever the tool
\* (pen, highlighter, eraser) and whatever the order of tools used, the
\* drawing context is back to normal compositing at full opacity, so the
\* highlighter's reduced opacity and multiply blend and the eraser's
\* destination-out never leak into a later pen stroke: the pixels a pen
\* segment changes get the pen's colour, the pixels an eraser segment changes
\* become transparent.
C35_ContextBackToNormal ==
    [][surface = "pdf" =>
          /\ drawingCtx' = [globalCompositeOperation |-> "source-over", globalAlpha |-> 100]
          /\ (isDrawing /\ isDrawing' /\ tool \in {"pen", "eraser"}) =>
                \A p \in Pixels :
                    canvas'[p] # canvas[p] =>
                        canvas'[p] = IF tool = "pen" THEN color ELSE Transparent]_vars

\* A pen gesture is drawing after a completed highlighter gesture.
C35_PenAfterHighlighter ==
    /\ surface = "pdf"
    /\ isDrawing
    /\ tool = "pen"
    /\ nSwitch = MaxSwitches - 1
    /\ \E p \in Pixels : canvas[p] = color
    /\ \E p \in Pixels : canvas[p] = "highlight"

\* The parent of project id in a list of projects, 0 when it has none or is
\* not in the list; and its k-th ancestor.
ParentOf(projects, id) ==
    IF \E i \in 1..Len(projects) : projects[i].id = id
    THEN (CHOOSE p \in {projects[i] : i \in 1..Len(projects)} : p.id = id).parentId
    ELSE 0

RECURSIVE AncestorOf(_, _, _)
AncestorOf(projects, id, k) ==
    IF k = 0 \/ id = 0 THEN id ELSE AncestorOf(projects, ParentOf(projects, id), k - 1)

IsForest(projects) ==
    \A i \in 1..Len(projects), k \in 1..Len(projects) :
        AncestorOf(projects, projects[i].id, k) # projects[i].id

\* C36: the project hierarchy is always a forest: after any sequence of
\* addProject, moveProject and deleteProject no project is its own ancestor,
\* because moveProject leaves the store unchanged when the new parent is the
\* project itself or one of its descendants (no step gives a project itself
\* or one of its descendants as parent).
C36_ProjectsFormForest ==
    [][/\ IsForest(store.projects)
       /\ IsForest(store'.projects)
       /\ \A i \in 1..Len(store.projects), j \in 1..Len(store'.projects) :
             (/\ store.projects[i].id = store'.projects[j].id
              /\ store.projects[i].parentId # store'.projects[j].parentId)
                 => store'.projects[j].parentId \notin
                       {store.projects[i].id} \cup
                       getAllChildProjectIds(store.projects, store.projects[i].id)]_vars

\* A project that has a child has been moved under a project created after
\* it: moving the new parent under the moved project or under its child would
\* close a cycle.
C36_MovedUnderLaterProject ==
    \E i, j \in 1..Len(store.projects) :
        /\ store.projects[i].parentId = store.projects[j].id
        /\ store.projects[j].id > store.projects[i].id
        /\ getAllChildProjectIds(store.projects, store.projects[i].id) # {}

\* The projects removed by a step, and those that remain.
RemovedProjects == ProjectIds(store) \ ProjectIds(store')

\* C37: deleteProject(id) removes the project and all of its descendant
\* projects and no other project, deletes no notebook, and moves every
\* notebook that belonged to a removed project to the root; afterwards no
\* remaining project or notebook refers to a removed project.
C37_DeleteProjectRemovesSubtree ==
    [][RemovedProjects # {} =>
          /\ \E id \in RemovedProjects :
                RemovedProjects = {id} \cup getAllChildProjectIds(store.projects, id)
          /\ \A i \in 1..Len(store'.projects) :
                /\ store'.projects[i] \in {store.projects[j] : j \in 1..Len(store.projects)}
                /\ store'.projects[i].parentId \notin RemovedProjects
          /\ Len(store'.notebooks) = Len(store.notebooks)
          /\ \A i \in 1..Len(store.notebooks) :
                store'.notebooks[i] =
                    IF store.notebooks[i].projectId \in RemovedProjects
                    THEN [store.notebooks[i] EXCEPT !.projectId = 0]
                    ELSE store.notebooks[i]
          /\ store'.activeNotebookId = store.activeNotebookId]_vars

\* The store as deleteProject(2) leaves it when project 3 was inside project 2
\* and notebook 4 inside project 3: project 5 remains, notebook 4 is at the
\* root.
C37_SubtreeDeleted ==
    /\ surface = "useProjects"
    /\ store.uuids = 5
    /\ ProjectIds(store) = {5}
    /\ NotebookIds(store) = {1, 4}
    /\ \A i \in 1..Len(store.notebooks) : store.notebooks[i].projectId = 0

\* C38: after any sequence of addNotebook, selectNotebook (of an existing
\* notebook) and deleteNotebook, activeNotebookId is either null or the id of
\* a notebook present in the store; deleting the active notebook selects the
\* first remaining notebook, or null when none remains, and deleting any other
\* notebook leaves the selection unchanged.
C38_ActiveNotebookExists ==
    [][/\ store.activeNotebookId \in {0} \cup NotebookIds(store)
       /\ store'.activeNotebookId \in {0} \cup NotebookIds(store')
       /\ Len(store'.notebooks) < Len(store.notebooks) =>
             store'.activeNotebookId =
                 IF store.activeNotebookId \in NotebookIds(store')
                 THEN store.activeNotebookId
                 ELSE IF Len(store'.notebooks) > 0 THEN store'.notebooks[1].id ELSE 0]_vars

\* The last notebook, which was the active one, has been deleted: nothing is
\* selected.
C38_LastNotebookDeleted ==
    /\ surface = "useProjects"
    /\ store.notebooks = <<>>
    /\ store.activeNotebookId = 0
    /\ store.uuids >= 2

\* The active notebook of a store (0 ids select none).
ActiveNotebook(st) ==
    CHOOSE n \in {st.notebooks[i] : i \in 1..Len(st.notebooks)} : n.id = st.activeNotebookId

CellIds(cells) == {cells[i].id : i \in 1..Len(cells)}

\* C39: addCell(type, afterId) inserts exactly one new cell into the active
\* notebook immediately after the cell whose id is afterId and appends it at
\* the end when afterId is not given or matches no cell; the relative order
\* of the existing cells and every other notebook are unchanged.  A step that
\* puts the new cell anywhere but at the end puts it right after an existing
\* cell (it is never the first cell of a notebook that had cells).
C39_NewCellAfterOrAtEnd ==
    [][(/\ store.activeNotebookId \in NotebookIds(store)
        /\ store'.activeNotebookId = store.activeNotebookId
        /\ NotebookIds(store') = NotebookIds(store)
        /\ Len(ActiveNotebook(store').cells) > Len(ActiveNotebook(store).cells))
          => LET old == ActiveNotebook(store).cells
                 new == ActiveNotebook(store').cells
             IN  /\ Len(new) = Len(old) + 1
                 /\ \E k \in 1..Len(new) :
                       /\ new[k].id \notin CellIds(old)
                       /\ old = SubSeq(new, 1, k - 1) \o SubSeq(new, k + 1, Len(new))
                       /\ (old # <<>>) => k > 1
                 /\ \A i \in 1..Len(store.notebooks) :
                       store.notebooks[i].id # store.activeNotebookId
                           => store'.notebooks[i] = store.notebooks[i]]_vars
====
